---- MODULE Spec2Model ----
(***************************************************************************)
(* Attendance synchronisation engine of edusense-ai (src/main.py).        *)
(* The relational store (src/models.py), the in-memory task table and the *)
(* ledger operations: background video analysis, manual entry, dispute    *)
(* and close-session.                                                     *)
(***************************************************************************)
EXTENDS Integers, Sequences, FiniteSets, TLC

\* ------------------------------------------------------------------ bounds
NumTasks == 2        \* videos submitted in one behaviour
MaxCount == 2        \* appearances of one student counted in one video
MaxInFlight == 1     \* endpoint requests in flight next to the analyses
TotalFrames == 2     \* frames of an uploaded video (CAP_PROP_FRAME_COUNT)
MaxHandlers == 1     \* handlers that reload the face index at the same time
MaxReads == 3        \* frames one analysis reads before the model leaves it
MaxFaces == 2        \* faces the detector returns for one frame
MaxTicks == 3        \* ticks of the clock in one behaviour
MaxKelas == 2        \* rows table kelas is given in one behaviour

\* -------------------------------------------------------------- population
Nims == {"s1", "s2", "s3", "s4"}
Tasks == 1..NumTasks
JadwalIds == {1, 2, 3}
Labels == {"happy"}
Reasons == {"wrong match"}

Yesterday == 0
FrameInterval == 1
NoTask == 0
NoPhoto == <<>>
NoText == "None"

CropPath(task_id, nim) == <<"hasil_crop", task_id, nim>>
ReportPath(nim, log_id) == <<"hasil_crop", "reports", nim, log_id>>

VARIABLES
    mahasiswa,      \* nims with a row in table mahasiswa
    embedding,      \* nims whose embedding_data is not null
    enrollment,     \* rows of kelas_enrollment
    jadwal,         \* jadwal_id -> student_class_id, rows of table jadwal
    log_absensi,    \* rows of log_absensi
    next_log_id,    \* autoincrement of log_absensi.log_id
    video_tasks,    \* task_id -> row of video_tasks (submitted tasks only)
    tasks_db,       \* state.tasks_db: task_id -> [status, progress]
    analyzer,       \* task_id -> locals of background_video_analyzer
    inflight,       \* endpoint requests between their reads and their commit
    today,          \* the calendar day of the clock
    resp,           \* the last response an endpoint returned
    embedding_data, \* nim -> mahasiswa.embedding_data, for the nims of embedding
    known_ids,      \* state.known_ids
    known_matrix,   \* state.known_matrix, NoMatrix for None
    handlers,       \* slot -> locals of a handler that awaits a reload
    kelas,          \* kelas_id -> nama_matkul, rows of table kelas
    next_kelas_id,  \* autoincrement of kelas.kelas_id
    cache_kelas,    \* state.cache_kelas, NoCache for None
    cache_kelas_time, \* state.cache_kelas_time, NoTime for None
    now,            \* datetime.now(), in ticks of TickSeconds
    users,          \* usernames with a row in table users
    temp_videos     \* task ids whose file exists in DIRECTORY_CONFIG["TEMP_VIDEO"]

storeVars == <<mahasiswa, embedding, enrollment, jadwal>>
indexVars == <<embedding_data, known_ids, known_matrix, handlers>>
cacheVars == <<kelas, next_kelas_id, cache_kelas, cache_kelas_time, now>>
vars == <<mahasiswa, embedding, enrollment, jadwal, log_absensi, next_log_id,
          video_tasks, tasks_db, analyzer, inflight, today, resp,
          embedding_data, known_ids, known_matrix, handlers,
          kelas, next_kelas_id, cache_kelas, cache_kelas_time, now, users, temp_videos>>

\* ------------------------------------------------------------ store reads
\* the rows of one (nim, jadwal_id, calendar day) among logs
LogsOf(logs, nim, jadwal_id, day) ==
    {l \in logs : l.nim = nim /\ l.jadwal_id = jadwal_id /\ l.waktu_absen = day}

\* mutant of TodayLogs: attendance keyed per (nim, day)
TodayLogsAnyJadwal(nim, jadwal_id, day) ==
    {l \in log_absensi : l.nim = nim /\ l.waktu_absen = day}

\* select(LogAbsensi).where(nim, jadwal_id, func.date(waktu_absen) == today)
TodayLogs(nim, jadwal_id, day) == LogsOf(log_absensi, nim, jadwal_id, day)

\* mutant of First: the lookup finds no row
FirstNone(rows) == {{}}

\* .scalars().first(): no row, or one of the matching rows (no ORDER BY)
First(rows) == IF rows = {} THEN {{}} ELSE {{l} : l \in rows}

\* select(KelasEnrollment.nim).where(student_class_id == ...)
EnrolledNims(student_class_id) ==
    {e.nim : e \in {x \in enrollment : x.student_class_id = student_class_id}}

\* mutant of EnrolledWithFace: the embedding filter is missing
EnrolledWithFaceAll(student_class_id) ==
    {n \in mahasiswa : n \in EnrolledNims(student_class_id)}

\* select(Mahasiswa.nim).join(KelasEnrollment ...).where(embedding_data.isnot(None))
EnrolledWithFace(student_class_id) ==
    {n \in mahasiswa : n \in EnrolledNims(student_class_id) /\ n \in embedding}

\* mutant of PresentNims: only the rows of students who attended count
PresentNimsAttended(jadwal_id, day) ==
    {l.nim : l \in {x \in log_absensi : /\ x.jadwal_id = jadwal_id
                                          /\ x.waktu_absen = day
                                          /\ x.metode # "ALPHA_SYSTEM"}}

\* select(LogAbsensi.nim).where(jadwal_id, func.date(waktu_absen) == today)
PresentNims(jadwal_id, day) ==
    {l.nim : l \in {x \in log_absensi : x.jadwal_id = jadwal_id /\ x.waktu_absen = day}}

LogRow(log_id, task_id, nim, jadwal_id, day, metode, jumlah, emosi, foto) ==
    [log_id |-> log_id, task_id |-> task_id, nim |-> nim, jadwal_id |-> jadwal_id,
     waktu_absen |-> day, metode |-> metode, jumlah_muncul |-> jumlah,
     emosi_dominan |-> emosi, bukti_foto |-> foto,
     is_disputed |-> FALSE, keterangan_report |-> NoText]

\* An endpoint request after its reads: the rows it loaded, the nims it will
\* insert (close), the nims it counted as present (close), the dispute's text
\* and photo path (report).
Request(op, nim, jadwal_id, loaded, nims, present, alasan, foto) ==
    [op |-> op, nim |-> nim, jadwal_id |-> jadwal_id, loaded |-> loaded,
     nims |-> nims, present |-> present, alasan |-> alasan, foto |-> foto]

\* the endpoint, the status code and the body of a response
Response(op, code) == [op |-> op, code |-> code, info |-> <<>>]

\* the response of close_class_session: the jadwal, "hadir" and "alpha"
CloseResponse(r) ==
    [op |-> "close", code |-> 200,
     info |-> <<r.jadwal_id, Cardinality(r.present), Cardinality(r.nims)>>]

IdleAnalyzer ==
    [pc |-> "idle", jadwal_id |-> 0, detected |-> <<>>, todo |-> {},
     enrolled_nims |-> {}, today_date |-> 0, new_logs |-> <<>>, dirty |-> {},
     processed_count |-> 0, skipped_count |-> 0, current_frame_idx |-> 0]

\* SystemStateManager.update_task: tasks_db[task_id].update(payload)
update_task(task_id, status, progress, error) ==
    (task_id :> [status |-> status, progress |-> progress,
                 error |-> IF error # NoText THEN error
                           ELSE IF task_id \in DOMAIN tasks_db
                                THEN tasks_db[task_id].error ELSE NoText])
    @@ tasks_db

\* ---------------------------------------------------------- identity index
\* Embeddings are vectors of Dim integers.  A normalised vector has length
\* Unit, so that the dot product of two normalised vectors is their cosine
\* similarity in hundredths.
Dim == 4
Unit == 10
FACE_SIMILARITY_THRESHOLD == 50
NoMatrix == <<>>
\* state.cache_kelas = None, state.cache_kelas_time = None
NoCache == (0 :> "None")
NoTime == -1
CACHE_TTL_SECONDS == 60
TickSeconds == 30
Handlers == 1..MaxHandlers

\* face.embedding as the detector returns it
RawEmbeddings == {<<2, 0, 0, 0>>, <<2, 2, 2, 2>>}

Dot(u, v) == u[1] * v[1] + u[2] * v[2] + u[3] * v[3] + u[4] * v[4]

\* np.linalg.norm
Norm(v) == CHOOSE n \in 0..Unit : n * n = Dot(v, v)

\* v / np.linalg.norm(v)
Normalize(v) == [i \in 1..Dim |-> (v[i] * Unit) \div Norm(v)]

\* mutant of ArgMax: the first row, whatever the scores
ArgFirst(scores) == 1

\* np.argmax: the first index of the greatest score
ArgMax(scores) ==
    CHOOSE i \in 1..Len(scores) :
        /\ \A j \in 1..Len(scores) : scores[j] <= scores[i]
        /\ \A j \in 1..(i - 1) : scores[j] < scores[i]

\* mutant of identify_face_fast: a score equal to the threshold is a match
identify_face_at_threshold(face_embedding) ==
    IF known_matrix = NoMatrix \/ Len(known_ids) = 0 THEN <<"Unknown", 0>>
    ELSE IF Len(face_embedding) # Dim THEN <<"Error", 0>>
    ELSE LET norm_emb == Normalize(face_embedding)
             scores == [i \in 1..Len(known_matrix) |-> Dot(known_matrix[i], norm_emb)]
             best_idx == ArgMax(scores)
             max_score == scores[best_idx]
         IN  IF max_score >= FACE_SIMILARITY_THRESHOLD
             THEN IF best_idx \in DOMAIN known_ids
                  THEN <<known_ids[best_idx], max_score>>
                  ELSE <<"Error", 0>>
             ELSE <<"Unknown", 0>>

\* identify_face_fast: np.dot raises on an embedding of another dimension and
\* known_ids[best_idx] on an index past the list; the except clause answers
\* "Error"
identify_face_fast(face_embedding) ==
    IF known_matrix = NoMatrix \/ Len(known_ids) = 0 THEN <<"Unknown", 0>>
    ELSE IF Len(face_embedding) # Dim THEN <<"Error", 0>>
    ELSE LET norm_emb == Normalize(face_embedding)
             scores == [i \in 1..Len(known_matrix) |-> Dot(known_matrix[i], norm_emb)]
             best_idx == ArgMax(scores)
             max_score == scores[best_idx]
         IN  IF max_score > FACE_SIMILARITY_THRESHOLD
             THEN IF best_idx \in DOMAIN known_ids
                  THEN <<known_ids[best_idx], max_score>>
                  ELSE <<"Error", 0>>
             ELSE <<"Unknown", 0>>

IdleHandler ==
    [op |-> "none", pc |-> "idle", nim |-> "none", emb |-> <<>>,
     temp_ids |-> <<>>, temp_vectors |-> <<>>]

\* a handler that has written the store and now awaits reload_face_database_async
Reloading(op, nim, emb) ==
    [op |-> op, pc |-> "reload", nim |-> nim, emb |-> emb,
     temp_ids |-> <<>>, temp_vectors |-> <<>>]

\* startup_event_handler, at its call of reload_face_database_async
StartupHandler == Reloading("startup", "none", <<>>)

\* ------------------------------------------------------------------- Init
\* A populated store: s1 has a face and is enrolled in both student classes,
\* s2 has a face and is enrolled in class 2 only, s3 is enrolled in class 1
\* and has no face registered, s4 has no row.  Jadwal 1 is bound to class 1,
\* jadwal 2 to class 2, jadwal 3 does not exist.  The ledger holds the manual
\* entry of s1 for jadwal 1 made the day before (day 0); the clock shows day 1.
Init ==
    /\ mahasiswa = {"s1", "s2", "s3"}
    /\ embedding = {"s1", "s2"}
    /\ enrollment = {[enrollment_id |-> 1, nim |-> "s1", student_class_id |-> 1],
                     [enrollment_id |-> 2, nim |-> "s1", student_class_id |-> 2],
                     [enrollment_id |-> 3, nim |-> "s2", student_class_id |-> 2],
                     [enrollment_id |-> 4, nim |-> "s3", student_class_id |-> 1]}
    /\ jadwal = (1 :> 1) @@ (2 :> 2)
    /\ log_absensi = {LogRow(1, NoTask, "s1", 1, Yesterday, "MANUAL_DOSEN", 1,
                             "Manual Input", NoPhoto)}
    /\ next_log_id = 2
    /\ video_tasks = <<>>
    /\ tasks_db = <<>>
    /\ analyzer = [t \in Tasks |-> IdleAnalyzer]
    /\ inflight = {}
    /\ today = 1
    /\ resp = Response("none", 0)
    /\ embedding_data = ("s1" :> <<6, 8, 0, 0>>) @@ ("s2" :> <<5, 5, 5, 5>>)
    /\ known_ids = <<>>
    /\ known_matrix = NoMatrix
    /\ handlers = [h \in Handlers |-> IF h = 1 THEN StartupHandler ELSE IdleHandler]
    /\ kelas = (1 :> "Basis Data")
    /\ next_kelas_id = 2
    /\ cache_kelas = NoCache
    /\ cache_kelas_time = NoTime
    /\ now = 0
    /\ users = {"s1", "s2", "s3"}
    /\ temp_videos = {}

\* ------------------------------------------------- endpoint_manual_absen
\* mutant of ManualCheck: the enrollment is not validated
ManualCheckNoEnrollment(nim, jadwal_id) ==
    IF nim \notin mahasiswa THEN 404
    ELSE IF jadwal_id \notin DOMAIN jadwal THEN 404
    ELSE 200

\* The validation of the handler: the student, the jadwal, the enrollment.
ManualCheck(nim, jadwal_id) ==
    IF nim \notin mahasiswa THEN 404
    ELSE IF jadwal_id \notin DOMAIN jadwal THEN 404
    ELSE IF nim \notin EnrolledNims(jadwal[jadwal_id]) THEN 403
    ELSE 200

\* The handler after its reads: existing_log is today's row or none.
ManualRequests(nim, jadwal_id) ==
    {Request("manual", nim, jadwal_id, existing_log, {}, {}, NoText, NoPhoto) :
        existing_log \in First(TodayLogs(nim, jadwal_id, today))}

\* mutant of ManualUpdated: the dispute is not cleared
ManualUpdatedKeepsDispute(cur, loaded) ==
    [cur EXCEPT !.metode = IF loaded.metode # "MANUAL_DOSEN" THEN "MANUAL_DOSEN" ELSE @,
                !.waktu_absen = today]

\* mutant of ManualUpdated: the row is written as a row of the video analysis
ManualUpdatedAsVideo(cur, loaded) ==
    [cur EXCEPT !.metode = "AI_VIDEO",
                !.is_disputed = IF loaded.is_disputed THEN FALSE ELSE @,
                !.keterangan_report = IF loaded.keterangan_report # NoText THEN NoText ELSE @,
                !.waktu_absen = today]

\* mutant of ManualUpdated: the evidence of the row is reset with its dispute
ManualUpdatedDropsEvidence(cur, loaded) ==
    [cur EXCEPT !.metode = IF loaded.metode # "MANUAL_DOSEN" THEN "MANUAL_DOSEN" ELSE @,
                !.is_disputed = IF loaded.is_disputed THEN FALSE ELSE @,
                !.keterangan_report = IF loaded.keterangan_report # NoText THEN NoText ELSE @,
                !.bukti_foto = NoPhoto,
                !.waktu_absen = today]

\* The unit of work flushes the attributes whose value differs from the loaded
\* one: UPDATE log_absensi SET ... WHERE log_id = :id
ManualUpdated(cur, loaded) ==
    [cur EXCEPT !.metode = IF loaded.metode # "MANUAL_DOSEN" THEN "MANUAL_DOSEN" ELSE @,
                !.is_disputed = IF loaded.is_disputed THEN FALSE ELSE @,
                !.keterangan_report = IF loaded.keterangan_report # NoText THEN NoText ELSE @,
                !.waktu_absen = today]

\* log_absensi after the commit of the handler
ManualWritten(r) ==
    IF r.loaded # {}
    THEN {IF \E x \in r.loaded : x.log_id = l.log_id
          THEN ManualUpdated(l, CHOOSE x \in r.loaded : TRUE)
          ELSE l : l \in log_absensi}
    ELSE log_absensi \cup
            {LogRow(next_log_id, NoTask, r.nim, r.jadwal_id, today,
                    "MANUAL_DOSEN", 1, "Manual Input", NoPhoto)}

ManualInserts(r) == IF r.loaded # {} THEN 0 ELSE 1

\* the whole handler, from its reads to its commit
endpoint_manual_absen(nim, jadwal_id) ==
    /\ IF ManualCheck(nim, jadwal_id) # 200
       THEN /\ resp' = Response("manual", ManualCheck(nim, jadwal_id))
            /\ UNCHANGED <<log_absensi, next_log_id>>
       ELSE /\ \E r \in ManualRequests(nim, jadwal_id) :
                  /\ log_absensi' = ManualWritten(r)
                  /\ next_log_id' = next_log_id + ManualInserts(r)
            /\ resp' = Response("manual", 200)
    /\ UNCHANGED <<cacheVars, users, temp_videos, storeVars, indexVars, video_tasks, tasks_db, analyzer, inflight, today>>

\* the handler up to its last read
ManualBegin(nim, jadwal_id) ==
    /\ IF ManualCheck(nim, jadwal_id) # 200
       THEN /\ resp' = Response("manual", ManualCheck(nim, jadwal_id))
            /\ UNCHANGED inflight
       ELSE /\ \E r \in ManualRequests(nim, jadwal_id) : inflight' = inflight \cup {r}
            /\ UNCHANGED resp
    /\ UNCHANGED <<cacheVars, users, temp_videos, storeVars, indexVars, log_absensi, next_log_id, video_tasks, tasks_db,
                   analyzer, today>>

\* await db.commit()
ManualCommit(r) ==
    /\ r \in inflight
    /\ r.op = "manual"
    /\ log_absensi' = ManualWritten(r)
    /\ next_log_id' = next_log_id + ManualInserts(r)
    /\ inflight' = inflight \ {r}
    /\ resp' = Response("manual", 200)
    /\ UNCHANGED <<cacheVars, users, temp_videos, storeVars, indexVars, video_tasks, tasks_db, analyzer, today>>

\* --------------------------------------------------- close_class_session
\* the orders in which `for nim in enrolled_nims` can visit a set
Orders(S) ==
    {o \in [1..Cardinality(S) -> S] : \A i, j \in 1..Cardinality(S) : o[i] = o[j] => i = j}

\* The handler after its reads: nims is enrolled_nims minus present_nims.
CloseRequest(jadwal_id) ==
    LET enrolled_nims == EnrolledWithFace(jadwal[jadwal_id])
        present_nims == PresentNims(jadwal_id, today)
    IN Request("close", "s1", jadwal_id, {}, enrolled_nims \ present_nims,
               present_nims, NoText, NoPhoto)

\* the values log_absensi can take at the commit of the handler
CloseWritten(r) ==
    {log_absensi \cup
        {LogRow(next_log_id + i - 1, NoTask, o[i], r.jadwal_id, today,
                "ALPHA_SYSTEM", 0, NoText, NoPhoto) : i \in 1..Cardinality(r.nims)}
     : o \in Orders(r.nims)}

\* mutant of CloseTasks: the UPDATE has no WHERE on jadwal_id
CloseTasksAll(jadwal_id) ==
    [t \in DOMAIN video_tasks |-> [video_tasks[t] EXCEPT !.is_closed = TRUE]]

\* update(VideoTask).where(jadwal_id == :id).values(is_closed=True)
CloseTasks(jadwal_id) ==
    [t \in DOMAIN video_tasks |->
        IF video_tasks[t].jadwal_id = jadwal_id
        THEN [video_tasks[t] EXCEPT !.is_closed = TRUE]
        ELSE video_tasks[t]]

\* the whole handler, from its reads to its commit
close_class_session(jadwal_id) ==
    /\ IF jadwal_id \notin DOMAIN jadwal
       THEN /\ resp' = Response("close", 404)
            /\ UNCHANGED <<log_absensi, next_log_id, video_tasks>>
       ELSE /\ log_absensi' \in CloseWritten(CloseRequest(jadwal_id))
            /\ next_log_id' = next_log_id + Cardinality(CloseRequest(jadwal_id).nims)
            /\ video_tasks' = CloseTasks(jadwal_id)
            /\ resp' = CloseResponse(CloseRequest(jadwal_id))
    /\ UNCHANGED <<cacheVars, users, temp_videos, storeVars, indexVars, tasks_db, analyzer, inflight, today>>

\* the handler up to its last read
CloseBegin(jadwal_id) ==
    /\ IF jadwal_id \notin DOMAIN jadwal
       THEN /\ resp' = Response("close", 404)
            /\ UNCHANGED inflight
       ELSE /\ inflight' = inflight \cup {CloseRequest(jadwal_id)}
            /\ UNCHANGED resp
    /\ UNCHANGED <<cacheVars, users, temp_videos, storeVars, indexVars, log_absensi, next_log_id, video_tasks, tasks_db,
                   analyzer, today>>

\* the flush, the UPDATE of video_tasks and await db.commit()
CloseCommit(r) ==
    /\ r \in inflight
    /\ r.op = "close"
    /\ log_absensi' \in CloseWritten(r)
    /\ next_log_id' = next_log_id + Cardinality(r.nims)
    /\ video_tasks' = CloseTasks(r.jadwal_id)
    /\ inflight' = inflight \ {r}
    /\ resp' = CloseResponse(r)
    /\ UNCHANGED <<cacheVars, users, temp_videos, storeVars, indexVars, tasks_db, analyzer, today>>

\* -------------------------------------------------- student_submit_report
\* mutant of ReportCheck: the enrollment is not validated
ReportCheckOwnerOnly(user, log_id) ==
    LET existing_log == {l \in log_absensi : l.log_id = log_id}
        l == CHOOSE x \in existing_log : TRUE
    IN IF existing_log = {} THEN 404
       ELSE IF l.nim # user THEN 403
       ELSE 200

\* The validation of the handler: the log, its owner, the enrollment.
ReportCheck(user, log_id) ==
    LET existing_log == {l \in log_absensi : l.log_id = log_id}
        l == CHOOSE x \in existing_log : TRUE
    IN IF existing_log = {} THEN 404
       ELSE IF l.nim # user THEN 403
       ELSE IF /\ l.jadwal_id \in DOMAIN jadwal
               /\ jadwal[l.jadwal_id] # 0
               /\ user \notin EnrolledNims(jadwal[l.jadwal_id]) THEN 403
       ELSE 200

\* The handler after its reads: bukti_path is the old photo unless one is sent.
ReportRequest(user, log_id, alasan, foto) ==
    LET existing_log == {l \in log_absensi : l.log_id = log_id}
        l == CHOOSE x \in existing_log : TRUE
    IN Request("report", user, l.jadwal_id, existing_log, {}, {}, alasan,
               IF foto THEN ReportPath(user, log_id) ELSE l.bukti_foto)

\* mutant of ReportWritten: the UPDATE has no WHERE on log_id
ReportWrittenNoWhere(r) ==
    {[l EXCEPT !.is_disputed = TRUE, !.keterangan_report = r.alasan, !.bukti_foto = r.foto]
        : l \in log_absensi}

\* update(LogAbsensi).where(log_id == :id).values(is_disputed, keterangan_report, bukti_foto)
ReportWritten(r) ==
    {IF \E x \in r.loaded : x.log_id = l.log_id
     THEN [l EXCEPT !.is_disputed = TRUE, !.keterangan_report = r.alasan,
                    !.bukti_foto = r.foto]
     ELSE l : l \in log_absensi}

\* the whole handler, from its reads to its commit
student_submit_report(user, log_id, alasan, foto) ==
    /\ resp' = Response("report", ReportCheck(user, log_id))
    /\ IF ReportCheck(user, log_id) # 200
       THEN UNCHANGED log_absensi
       ELSE log_absensi' = ReportWritten(ReportRequest(user, log_id, alasan, foto))
    /\ UNCHANGED <<cacheVars, users, temp_videos, storeVars, indexVars, next_log_id, video_tasks, tasks_db, analyzer, inflight, today>>

\* the handler up to its last read
ReportBegin(user, log_id, alasan, foto) ==
    /\ IF ReportCheck(user, log_id) # 200
       THEN /\ resp' = Response("report", ReportCheck(user, log_id))
            /\ UNCHANGED inflight
       ELSE /\ inflight' = inflight \cup {ReportRequest(user, log_id, alasan, foto)}
            /\ UNCHANGED resp
    /\ UNCHANGED <<cacheVars, users, temp_videos, storeVars, indexVars, log_absensi, next_log_id, video_tasks, tasks_db,
                   analyzer, today>>

\* await db.execute(update ...); await db.commit()
ReportCommit(r) ==
    /\ r \in inflight
    /\ r.op = "report"
    /\ log_absensi' = ReportWritten(r)
    /\ inflight' = inflight \ {r}
    /\ resp' = Response("report", 200)
    /\ UNCHANGED <<cacheVars, users, temp_videos, storeVars, indexVars, next_log_id, video_tasks, tasks_db, analyzer, today>>

\* ------------------------------------------------------------ update_jadwal
\* the student classes with a row in table student_class
ClassIds == {1, 2}

\* PUT /admin/jadwal/{jadwal_id}: the jadwal is bound to the student class of
\* the request; without one (None) the commit violates NOT NULL and nothing is
\* written.
update_jadwal(jadwal_id, student_class_id) ==
    /\ IF jadwal_id \notin DOMAIN jadwal
       THEN /\ resp' = Response("update_jadwal", 404)
            /\ UNCHANGED jadwal
       ELSE IF student_class_id \notin ClassIds
       THEN /\ resp' = Response("update_jadwal", 500)
            /\ UNCHANGED jadwal
       ELSE /\ jadwal' = [jadwal EXCEPT ![jadwal_id] = student_class_id]
            /\ resp' = Response("update_jadwal", 200)
    /\ UNCHANGED <<cacheVars, users, temp_videos, indexVars, mahasiswa, embedding, enrollment, log_absensi, next_log_id,
                   video_tasks, tasks_db, analyzer, inflight, today>>

\* ----------------------------------------------- endpoint_get_task_status
\* GET /status/{task_id}: the entry of tasks_db, or not_found with progress 0
endpoint_get_task_status(task_id) ==
    IF task_id \in DOMAIN tasks_db
    THEN [status |-> tasks_db[task_id].status, progress |-> tasks_db[task_id].progress]
    ELSE [status |-> "not_found", progress |-> 0]

\* ------------------------------------------------- endpoint_analyze_video
endpoint_analyze_video(task_id, jadwal_id) ==
    /\ task_id \notin DOMAIN video_tasks
    /\ \A t \in Tasks : t < task_id => t \in DOMAIN video_tasks
    /\ IF jadwal_id \notin DOMAIN jadwal
       THEN /\ resp' = Response("analyze", 404)
            /\ UNCHANGED <<video_tasks, tasks_db, analyzer, temp_videos>>
       ELSE /\ temp_videos' = temp_videos \cup {task_id}
            /\ video_tasks' = (task_id :> [jadwal_id |-> jadwal_id, status |-> "processing",
                                           is_closed |-> FALSE]) @@ video_tasks
            /\ tasks_db' = update_task(task_id, "queued", 0, NoText)
            /\ analyzer' = [analyzer EXCEPT ![task_id] =
                                [IdleAnalyzer EXCEPT !.pc = "queued", !.jadwal_id = jadwal_id]]
            /\ resp' = Response("analyze", 200)
    /\ UNCHANGED <<cacheVars, users, storeVars, indexVars, log_absensi, next_log_id, inflight, today>>

\* ---------------------------------------------- background_video_analyzer
\* detected_students[nim]: the count, the affect tally and the first crop.
\* The classifier is called for the first crop only, so a tally holds at most
\* one call and is empty when there is no crop.
EmptyTally == [lab \in Labels |-> 0]

Tallies == {EmptyTally} \cup {[EmptyTally EXCEPT ![lab] = 1] : lab \in Labels}

Evidence(task_id, nim) ==
    {[count |-> c, emosi |-> e, sample |-> s] :
        c \in 1..MaxCount, e \in Tallies, s \in {NoPhoto, CropPath(task_id, nim)}}

DetectedStudents(task_id) ==
    UNION {{d \in [D -> UNION {Evidence(task_id, n) : n \in D}] :
               \A n \in D : /\ d[n] \in Evidence(task_id, n)
                             /\ (d[n].sample = NoPhoto => d[n].emosi = EmptyTally)}
           : D \in SUBSET embedding}

\* mutant of DominantEmotion: the tally is not read
DominantAlwaysNeutral(emosi) == "Neutral"

\* dominant_emotion = max(meta['emosi'], key=meta['emosi'].get), "Neutral" if empty
DominantEmotion(emosi) ==
    IF \A lab \in Labels : emosi[lab] = 0
    THEN "Neutral"
    ELSE CHOOSE lab \in Labels : \A other \in Labels : emosi[other] <= emosi[lab]

\* state.update_task(task_id, "processing", 0)
AnalyzerStart(t) ==
    /\ analyzer[t].pc = "queued"
    /\ tasks_db' = update_task(t, "processing", 0, NoText)
    /\ analyzer' = [analyzer EXCEPT ![t].pc = "scan"]
    /\ UNCHANGED <<cacheVars, users, temp_videos, storeVars, indexVars, log_absensi, next_log_id, video_tasks, inflight, today, resp>>

\* mutant of progress_pct: the share of the frames still to read
progress_left(current_frame_idx) ==
    IF ((TotalFrames - current_frame_idx) * 100) \div TotalFrames < 99
    THEN ((TotalFrames - current_frame_idx) * 100) \div TotalFrames
    ELSE 99

\* mutant of progress_pct: the share of the frames read once the frame about
\* to be read is counted, without the cap
progress_after(current_frame_idx) ==
    ((current_frame_idx + FrameInterval) * 100) \div TotalFrames

\* progress_pct = min(int((current_frame_idx / total_frames) * 100), 99)
progress_pct(current_frame_idx) ==
    IF (current_frame_idx * 100) \div TotalFrames < 99
    THEN (current_frame_idx * 100) \div TotalFrames
    ELSE 99

\* One iteration of the frame loop: the progress of the frame about to be read
\* is published, the frame is read and current_frame_idx moves on.
AnalyzerFrame(t) ==
    /\ analyzer[t].pc = "scan"
    /\ analyzer[t].current_frame_idx < TotalFrames
    /\ tasks_db' = update_task(t, "processing", progress_pct(analyzer[t].current_frame_idx), NoText)
    /\ analyzer' = [analyzer EXCEPT ![t].current_frame_idx = @ + FrameInterval]
    /\ UNCHANGED <<cacheVars, users, temp_videos, storeVars, indexVars, log_absensi, next_log_id, video_tasks, inflight, today, resp>>

\* mutant of LedgerOpened: the enrollment is not filtered
LedgerOpenedNoFilter(a, detected) ==
    [a EXCEPT !.pc = "upsert",
              !.detected = detected,
              !.todo = DOMAIN detected,
              !.enrolled_nims = Nims \cup {"Error"},
              !.today_date = today,
              !.current_frame_idx = 0]

\* The locals when the ledger session has read the task, the jadwal and its
\* enrollment: enrolled_nims is None (no filtering) without student_class_id.
\* The frame index is not read after the frame loop.
LedgerOpened(a, detected) ==
    [a EXCEPT !.pc = "upsert",
              !.detected = detected,
              !.todo = DOMAIN detected,
              !.enrolled_nims = IF jadwal[a.jadwal_id] # 0
                                THEN EnrolledNims(jadwal[a.jadwal_id])
                                ELSE Nims \cup {"Error"},
              !.today_date = today,
              !.current_frame_idx = 0]

\* mutant of Upserted: an existing row is merged whatever its metode
UpsertedAnyMethod(t, a, nim, existing_log) ==
    LET meta == a.detected[nim]
        l == CHOOSE x \in existing_log : TRUE
    IN IF nim \notin a.enrolled_nims
       THEN [a EXCEPT !.todo = @ \ {nim}, !.skipped_count = @ + 1]
       ELSE IF existing_log = {}
       THEN [a EXCEPT !.todo = @ \ {nim}, !.processed_count = @ + 1,
                      !.new_logs = Append(@,
                          LogRow(0, t, nim, a.jadwal_id, 0, "AI_VIDEO", meta.count,
                                 DominantEmotion(meta.emosi), meta.sample))]
       ELSE [a EXCEPT !.todo = @ \ {nim}, !.processed_count = @ + 1,
                      !.dirty = @ \cup {[log_id |-> l.log_id,
                                         jumlah_muncul |-> l.jumlah_muncul + meta.count]}]

\* mutant of Upserted: the count of an existing row is replaced, not added to
UpsertedOverwrite(t, a, nim, existing_log) ==
    LET meta == a.detected[nim]
        l == CHOOSE x \in existing_log : TRUE
    IN IF nim \notin a.enrolled_nims
       THEN [a EXCEPT !.todo = @ \ {nim}, !.skipped_count = @ + 1]
       ELSE IF existing_log = {}
       THEN [a EXCEPT !.todo = @ \ {nim}, !.processed_count = @ + 1,
                      !.new_logs = Append(@,
                          LogRow(0, t, nim, a.jadwal_id, 0, "AI_VIDEO", meta.count,
                                 DominantEmotion(meta.emosi), meta.sample))]
       ELSE IF l.metode = "AI_VIDEO"
       THEN [a EXCEPT !.todo = @ \ {nim}, !.processed_count = @ + 1,
                      !.dirty = @ \cup {[log_id |-> l.log_id,
                                         jumlah_muncul |-> meta.count]}]
       ELSE [a EXCEPT !.todo = @ \ {nim}]

\* The locals after one iteration of `for nim, meta in detected_students.items()`
\* whose lookup returned existing_log.
Upserted(t, a, nim, existing_log) ==
    LET meta == a.detected[nim]
        l == CHOOSE x \in existing_log : TRUE
    IN IF nim \notin a.enrolled_nims
       THEN [a EXCEPT !.todo = @ \ {nim}, !.skipped_count = @ + 1]
       ELSE IF existing_log = {}
       THEN [a EXCEPT !.todo = @ \ {nim}, !.processed_count = @ + 1,
                      !.new_logs = Append(@,
                          LogRow(0, t, nim, a.jadwal_id, 0, "AI_VIDEO", meta.count,
                                 DominantEmotion(meta.emosi), meta.sample))]
       ELSE IF l.metode = "AI_VIDEO"
       THEN [a EXCEPT !.todo = @ \ {nim}, !.processed_count = @ + 1,
                      !.dirty = @ \cup {[log_id |-> l.log_id,
                                         jumlah_muncul |-> l.jumlah_muncul + meta.count]}]
       ELSE [a EXCEPT !.todo = @ \ {nim}]

\* the lookup of one iteration
Lookups(a, nim) == First(TodayLogs(nim, a.jadwal_id, a.today_date))

\* the locals the loop can end with when nothing else writes the ledger
RECURSIVE UpsertedAll(_, _)
UpsertedAll(t, a) ==
    IF a.todo = {}
    THEN {a}
    ELSE UNION {UNION {UpsertedAll(t, Upserted(t, a, nim, e)) : e \in Lookups(a, nim)}
                : nim \in a.todo}

\* mutant of Flushed: the UPDATE of a merged row also resets its dispute
FlushedClearsDispute(a) ==
    {IF \E d \in a.dirty : d.log_id = l.log_id
     THEN [l EXCEPT !.jumlah_muncul = (CHOOSE d \in a.dirty : d.log_id = l.log_id).jumlah_muncul,
                    !.is_disputed = FALSE]
     ELSE l : l \in log_absensi}
    \cup {[a.new_logs[i] EXCEPT !.log_id = next_log_id + i - 1, !.waktu_absen = today]
           : i \in 1..Len(a.new_logs)}

\* mutant of Flushed: the pending INSERTs are written with jumlah_muncul 1
FlushedCountOne(a) ==
    {IF \E d \in a.dirty : d.log_id = l.log_id
     THEN [l EXCEPT !.jumlah_muncul = (CHOOSE d \in a.dirty : d.log_id = l.log_id).jumlah_muncul]
     ELSE l : l \in log_absensi}
    \cup {[a.new_logs[i] EXCEPT !.log_id = next_log_id + i - 1, !.waktu_absen = today,
                                !.jumlah_muncul = 1]
           : i \in 1..Len(a.new_logs)}

\* log_absensi after db_session.commit(): the pending INSERTs and UPDATEs
Flushed(a) ==
    {IF \E d \in a.dirty : d.log_id = l.log_id
     THEN [l EXCEPT !.jumlah_muncul = (CHOOSE d \in a.dirty : d.log_id = l.log_id).jumlah_muncul]
     ELSE l : l \in log_absensi}
    \cup {[a.new_logs[i] EXCEPT !.log_id = next_log_id + i - 1, !.waktu_absen = today]
           : i \in 1..Len(a.new_logs)}

\* The locals when the commit has reached the store and the function has not
\* resumed: the unit of work is flushed.
Committed(a) ==
    [a EXCEPT !.pc = "committed", !.todo = {}, !.enrolled_nims = {}, !.today_date = 0,
              !.new_logs = <<>>, !.dirty = {}]

\* mutant of Removed: the function ends and leaves the file
RemovedNever(task_id) == temp_videos

\* finally: if os.path.exists(file_path): os.remove(file_path)
Removed(task_id) == temp_videos \ {task_id}

\* `if not jadwal_obj`: update_task(task_id, "failed", error=...); return
AnalyzerNoJadwal(t) ==
    /\ analyzer[t].pc = "scan"
    /\ analyzer[t].jadwal_id \notin DOMAIN jadwal
    /\ tasks_db' = update_task(t, "failed", 0, "Jadwal tidak ditemukan")
    /\ analyzer' = [analyzer EXCEPT ![t] = [IdleAnalyzer EXCEPT !.pc = "done"]]
    /\ temp_videos' = Removed(t)
    /\ UNCHANGED <<cacheVars, users, storeVars, indexVars, log_absensi, next_log_id, video_tasks, inflight, today, resp>>

\* The analysis from the end of the frame loop to the commit of its ledger
\* session.
VideoApply(t, detected) ==
    /\ analyzer[t].pc = "scan"
    /\ analyzer[t].jadwal_id \in DOMAIN jadwal
    /\ \E a \in UpsertedAll(t, LedgerOpened(analyzer[t], detected)) :
          /\ log_absensi' = Flushed(a)
          /\ next_log_id' = next_log_id + Len(a.new_logs)
          /\ analyzer' = [analyzer EXCEPT ![t] = Committed(a)]
    /\ video_tasks' = [video_tasks EXCEPT ![t].status = "completed"]
    /\ UNCHANGED tasks_db
    /\ UNCHANGED <<cacheVars, users, temp_videos, storeVars, indexVars, inflight, today, resp>>

\* The frame loop ends with detected_students and the ledger session opens.
AnalyzerScanDone(t, detected) ==
    /\ analyzer[t].pc = "scan"
    /\ analyzer[t].jadwal_id \in DOMAIN jadwal
    /\ analyzer' = [analyzer EXCEPT ![t] = LedgerOpened(@, detected)]
    /\ UNCHANGED <<cacheVars, users, temp_videos, storeVars, indexVars, log_absensi, next_log_id, video_tasks, tasks_db, inflight,
                   today, resp>>

\* one iteration of `for nim, meta in detected_students.items()`
AnalyzerUpsert(t, nim) ==
    /\ analyzer[t].pc = "upsert"
    /\ nim \in analyzer[t].todo
    /\ \E existing_log \in Lookups(analyzer[t], nim) :
          analyzer' = [analyzer EXCEPT ![t] = Upserted(t, @, nim, existing_log)]
    /\ UNCHANGED <<cacheVars, users, temp_videos, storeVars, indexVars, log_absensi, next_log_id, video_tasks, tasks_db, inflight,
                   today, resp>>

\* await db_session.commit(): the store applies the transaction
AnalyzerCommit(t) ==
    /\ analyzer[t].pc = "upsert"
    /\ analyzer[t].todo = {}
    /\ log_absensi' = Flushed(analyzer[t])
    /\ next_log_id' = next_log_id + Len(analyzer[t].new_logs)
    /\ video_tasks' = [video_tasks EXCEPT ![t].status = "completed"]
    /\ analyzer' = [analyzer EXCEPT ![t] = Committed(@)]
    /\ UNCHANGED <<cacheVars, users, temp_videos, storeVars, indexVars, tasks_db, inflight, today, resp>>

\* the function resumes after the commit: state.update_task(task_id,
\* "completed", 100), the final log line, and it returns through the
\* finally block
AnalyzerReturn(t) ==
    /\ analyzer[t].pc = "committed"
    /\ tasks_db' = update_task(t, "completed", 100, NoText)
    /\ analyzer' = [analyzer EXCEPT ![t] = [IdleAnalyzer EXCEPT !.pc = "done"]]
    /\ temp_videos' = Removed(t)
    /\ UNCHANGED <<cacheVars, users, storeVars, indexVars, log_absensi, next_log_id, video_tasks, inflight, today, resp>>

\* mutant of AnalyzerRaise: the rows added before the exception are kept
AnalyzerRaiseKeepsRows(t) ==
    /\ analyzer[t].pc \in {"scan", "upsert"}
    /\ tasks_db' = update_task(t, "failed", 0, "error")
    /\ log_absensi' = Flushed(analyzer[t])
    /\ next_log_id' = next_log_id + Len(analyzer[t].new_logs)
    /\ analyzer' = [analyzer EXCEPT ![t] = [IdleAnalyzer EXCEPT !.pc = "except"]]
    /\ UNCHANGED <<cacheVars, users, temp_videos, storeVars, indexVars, video_tasks, inflight, today, resp>>

\* except Exception as e: state.update_task(task_id, "failed", error=str(e));
\* the ledger session is left without a commit
AnalyzerRaise(t) ==
    /\ analyzer[t].pc \in {"scan", "upsert"}
    /\ tasks_db' = update_task(t, "failed", 0, "error")
    /\ analyzer' = [analyzer EXCEPT ![t] = [IdleAnalyzer EXCEPT !.pc = "except"]]
    /\ UNCHANGED <<cacheVars, users, temp_videos, storeVars, indexVars, log_absensi, next_log_id, video_tasks, inflight, today, resp>>

\* mutant of AnalyzerMarkFailed: the except block ends without its session
AnalyzerMarkFailedInMemory(t) ==
    /\ analyzer[t].pc = "except"
    /\ analyzer' = [analyzer EXCEPT ![t].pc = "done"]
    /\ temp_videos' = temp_videos \ {t}
    /\ UNCHANGED <<cacheVars, users, storeVars, indexVars, log_absensi, next_log_id, video_tasks,
                   tasks_db, inflight, today, resp>>

\* the second session of the except block: t_obj.status = "failed"; the
\* finally block follows it
AnalyzerMarkFailed(t) ==
    /\ analyzer[t].pc = "except"
    /\ video_tasks' = [video_tasks EXCEPT ![t].status = "failed"]
    /\ analyzer' = [analyzer EXCEPT ![t].pc = "done"]
    /\ temp_videos' = Removed(t)
    /\ UNCHANGED <<cacheVars, users, storeVars, indexVars, log_absensi, next_log_id, tasks_db, inflight, today, resp>>

\* ------------------------------------------- background_video_analyzer: frames
\* The frame loop step by step.  fps is in tenths of a frame per second.
\* frame_interval = int((cap.get(cv2.CAP_PROP_FPS) or 30) * 1.5)
frame_interval(fps) == ((IF fps = 0 THEN 300 ELSE fps) * 15) \div 100

\* min(int((current_frame_idx / total_frames) * 100), 99)
progress_of(current_frame_idx, total_frames) ==
    IF (current_frame_idx * 100) \div total_frames < 99
    THEN (current_frame_idx * 100) \div total_frames
    ELSE 99

\* f"/hasil_crop/{task_id}_{nim_result}_{current_frame_idx}.jpg"
CropFile(task_id, nim, current_frame_idx) == <<"hasil_crop", task_id, nim, current_frame_idx>>

\* defaultdict(lambda: {'count': 0, 'emosi': defaultdict(int), 'sample': None})
NewStudent == [count |-> 0, emosi |-> EmptyTally, sample |-> NoPhoto]

\* detected_students[nim]
Meta(detected_students, nim) ==
    IF nim \in DOMAIN detected_students THEN detected_students[nim] ELSE NewStudent

\* cap = cv2.VideoCapture(file_path) has opened: the locals of the frame loop
FrameOpen(t, fps, total_frames) ==
    /\ analyzer[t].pc = "scan"
    /\ "loop" \notin DOMAIN analyzer[t]
    /\ analyzer' = [analyzer EXCEPT ![t] =
                       [loop |-> "read", total_frames |-> total_frames,
                        frame_interval |-> frame_interval(fps), reads |-> 0,
                        faces |-> <<>>, detected_students |-> <<>>] @@ @]
    /\ UNCHANGED <<cacheVars, users, temp_videos, storeVars, indexVars, log_absensi, next_log_id, video_tasks, tasks_db,
                   inflight, today, resp>>

\* The top of an iteration: the progress is published, the frame is read (ret)
\* and the detector returns its faces; a face is the answer of
\* identify_face_fast for it and whether its crop is non-empty.
FrameRead(t, ret, faces) ==
    /\ analyzer[t].pc = "scan"
    /\ "loop" \in DOMAIN analyzer[t]
    /\ analyzer[t].loop = "read"
    /\ analyzer[t].reads < MaxReads
    /\ tasks_db' = IF analyzer[t].total_frames > 0
                   THEN update_task(t, "processing",
                                    progress_of(analyzer[t].current_frame_idx,
                                                analyzer[t].total_frames), NoText)
                   ELSE tasks_db
    /\ analyzer' = IF ret
                   THEN [analyzer EXCEPT ![t].loop = "faces", ![t].faces = faces,
                                         ![t].reads = @ + 1]
                   ELSE [analyzer EXCEPT ![t].loop = "released", ![t].reads = @ + 1]
    /\ UNCHANGED <<cacheVars, users, temp_videos, storeVars, indexVars, log_absensi, next_log_id, video_tasks, inflight,
                   today, resp>>

\* mutant of Classified: a failed call of the classifier drops the student
ClassifiedOrDropped(task_id, a, api) ==
    LET face == Head(a.faces)
        nim_result == face.nim_result
        meta == Meta(a.detected_students, nim_result)
        counted == [meta EXCEPT !.count = @ + 1]
        cropped == [counted EXCEPT !.sample = CropFile(task_id, nim_result, a.current_frame_idx)]
    IN  IF nim_result = "Unknown" THEN a.detected_students
        ELSE IF meta.sample # NoPhoto \/ ~face.crop
        THEN (nim_result :> counted) @@ a.detected_students
        ELSE IF api \in Labels
        THEN (nim_result :> [cropped EXCEPT !.emosi[api] = @ + 1]) @@ a.detected_students
        ELSE [n \in DOMAIN a.detected_students \ {nim_result} |-> a.detected_students[n]]

\* mutant of Classified: every crop replaces the sample and is classified
ClassifiedEveryCrop(task_id, a, api) ==
    LET face == Head(a.faces)
        nim_result == face.nim_result
        meta == Meta(a.detected_students, nim_result)
        counted == [meta EXCEPT !.count = @ + 1]
        cropped == [counted EXCEPT !.sample = CropFile(task_id, nim_result, a.current_frame_idx)]
    IN  IF nim_result = "Unknown" THEN a.detected_students
        ELSE IF ~face.crop
        THEN (nim_result :> counted) @@ a.detected_students
        ELSE IF api \in Labels
        THEN (nim_result :> [cropped EXCEPT !.emosi[api] = @ + 1]) @@ a.detected_students
        ELSE (nim_result :> cropped) @@ a.detected_students

\* detected_students after the body of `for face in faces` for the first face
\* left: api is the label the classifier answers, or its failure (an
\* exception, a timeout, a status other than 200)
Classified(task_id, a, api) ==
    LET face == Head(a.faces)
        nim_result == face.nim_result
        meta == Meta(a.detected_students, nim_result)
        counted == [meta EXCEPT !.count = @ + 1]
        cropped == [counted EXCEPT !.sample = CropFile(task_id, nim_result, a.current_frame_idx)]
    IN  IF nim_result = "Unknown" THEN a.detected_students
        ELSE IF meta.sample # NoPhoto \/ ~face.crop
        THEN (nim_result :> counted) @@ a.detected_students
        ELSE IF api \in Labels
        THEN (nim_result :> [cropped EXCEPT !.emosi[api] = @ + 1]) @@ a.detected_students
        ELSE (nim_result :> cropped) @@ a.detected_students

\* the classifier is called for the first face left
Calls(a) ==
    LET face == Head(a.faces)
    IN  /\ face.nim_result # "Unknown"
        /\ Meta(a.detected_students, face.nim_result).sample = NoPhoto
        /\ face.crop

\* one iteration of `for face in faces`
FrameFace(t, api) ==
    /\ analyzer[t].pc = "scan"
    /\ "loop" \in DOMAIN analyzer[t]
    /\ analyzer[t].loop = "faces"
    /\ analyzer[t].faces # <<>>
    /\ Calls(analyzer[t]) \/ api = "none"
    /\ analyzer' = [analyzer EXCEPT ![t].detected_students = Classified(t, analyzer[t], api),
                                    ![t].faces = Tail(@)]
    /\ UNCHANGED <<cacheVars, users, temp_videos, storeVars, indexVars, log_absensi, next_log_id, video_tasks, tasks_db,
                   inflight, today, resp>>

\* current_frame_idx += frame_interval
Advanced(a) == a.current_frame_idx + a.frame_interval

\* the end of an iteration: the next offset, and the break at the end of the
\* video
FrameNext(t) ==
    /\ analyzer[t].pc = "scan"
    /\ "loop" \in DOMAIN analyzer[t]
    /\ analyzer[t].loop = "faces"
    /\ analyzer[t].faces = <<>>
    /\ analyzer' = [analyzer EXCEPT
                       ![t].current_frame_idx = Advanced(analyzer[t]),
                       ![t].loop = IF Advanced(analyzer[t]) >= analyzer[t].total_frames
                                   THEN "released" ELSE "read"]
    /\ UNCHANGED <<cacheVars, users, temp_videos, storeVars, indexVars, log_absensi, next_log_id, video_tasks, tasks_db,
                   inflight, today, resp>>

\* ------------------------------------------------- reload_face_database_async
\* mutant of LoopFree: other steps run between the two assignments
LoopNeverHeld == TRUE

\* The event loop runs one coroutine at a time and a coroutine gives way only
\* at an await.  The two assignments that replace the index have no await
\* between them: while a handler stands between them no other step runs.
LoopFree == \A h \in Handlers : handlers[h].pc # "swap_matrix"

\* the application serves requests once startup_event_handler has returned
Serving == \A h \in Handlers : handlers[h].op # "startup"

\* the response of a handler once its reload has returned
Answer(h) ==
    IF handlers[h].op = "startup" THEN resp ELSE Response(handlers[h].op, 200)

\* select(Mahasiswa.nim, Mahasiswa.embedding_data).where(embedding_data.isnot(None))
\* and the loop over its rows, which come in an order the query does not fix
ReloadRead(h, order) ==
    /\ LoopFree
    /\ handlers[h].pc = "reload"
    /\ handlers' = [handlers EXCEPT ![h].pc = "swap",
                                    ![h].temp_ids = order,
                                    ![h].temp_vectors =
                                        [i \in 1..Len(order) |-> Normalize(embedding_data[order[i]])]]
    /\ UNCHANGED <<cacheVars, users, temp_videos, storeVars, log_absensi, next_log_id, video_tasks, tasks_db, analyzer,
                   inflight, today, resp, embedding_data, known_ids, known_matrix>>

\* mutant of ReloadFail: the except clause resets the index
ReloadFailClears(h) ==
    /\ LoopFree
    /\ handlers[h].pc = "reload"
    /\ handlers' = [handlers EXCEPT ![h] = IdleHandler]
    /\ resp' = Answer(h)
    /\ known_ids' = <<>>
    /\ known_matrix' = NoMatrix
    /\ UNCHANGED <<cacheVars, users, temp_videos, storeVars, log_absensi, next_log_id, video_tasks, tasks_db, analyzer,
                   inflight, today, embedding_data>>

\* the store fails under the reload: the except clause logs and returns
ReloadFail(h) ==
    /\ LoopFree
    /\ handlers[h].pc = "reload"
    /\ handlers' = [handlers EXCEPT ![h] = IdleHandler]
    /\ resp' = Answer(h)
    /\ UNCHANGED <<cacheVars, users, temp_videos, storeVars, log_absensi, next_log_id, video_tasks, tasks_db, analyzer,
                   inflight, today, embedding_data, known_ids, known_matrix>>

\* state.known_ids = temp_ids / state.known_ids = []
ReloadSwapIds(h) ==
    /\ LoopFree
    /\ handlers[h].pc = "swap"
    /\ known_ids' = handlers[h].temp_ids
    /\ handlers' = [handlers EXCEPT ![h].pc = "swap_matrix"]
    /\ UNCHANGED <<cacheVars, users, temp_videos, storeVars, log_absensi, next_log_id, video_tasks, tasks_db, analyzer,
                   inflight, today, resp, embedding_data, known_matrix>>

\* state.known_matrix = np.array(temp_vectors) / state.known_matrix = None,
\* and the return of the reload and of the handler that awaited it
ReloadSwapMatrix(h) ==
    /\ handlers[h].pc = "swap_matrix"
    /\ known_matrix' = IF handlers[h].temp_vectors # <<>>
                       THEN handlers[h].temp_vectors ELSE NoMatrix
    /\ handlers' = [handlers EXCEPT ![h] = IdleHandler]
    /\ resp' = Answer(h)
    /\ UNCHANGED <<cacheVars, users, temp_videos, storeVars, log_absensi, next_log_id, video_tasks, tasks_db, analyzer,
                   inflight, today, embedding_data, known_ids>>

\* ---------------------------------------------------- register_face_endpoint
\* faces is what state.face_app.get(img) returns: the embeddings of the faces
register_face_endpoint(h, nim, faces) ==
    /\ LoopFree
    /\ Serving
    /\ handlers[h] = IdleHandler
    /\ IF faces = <<>>
       THEN /\ resp' = Response("register", 400)
            /\ UNCHANGED <<users, mahasiswa, embedding, embedding_data, handlers>>
       ELSE LET emb == Normalize(faces[1])
            IN  /\ users' = users \cup {nim}
                /\ mahasiswa' = mahasiswa \cup {nim}
                /\ embedding' = embedding \cup {nim}
                /\ embedding_data' = (nim :> emb) @@ embedding_data
                /\ handlers' = [handlers EXCEPT ![h] = Reloading("register", nim, emb)]
                /\ UNCHANGED resp
    /\ UNCHANGED <<cacheVars, temp_videos, enrollment, jadwal, log_absensi, next_log_id,
                   video_tasks, tasks_db, analyzer, inflight, today, known_ids, known_matrix>>

\* ---------------------------------------------------- bulk_face_registration
\* photos: nim of the file name -> normed_embedding of the one face of the
\* photo.  BulkFaceProcessor.save_to_database commits each of them; the
\* endpoint returns the summary.
\* BulkFaceProcessor.save_to_database: 'updated' for a nim with a Mahasiswa
\* row, else 'created'
operation_type(nim) == IF nim \in mahasiswa THEN "updated" ELSE "created"

\* the Users rows save_to_database adds: `if not user`, on the 'created' path
UsersAdded(nims) == {n \in nims : n \notin mahasiswa /\ n \notin users}

\* BulkRegistrationSummary of process_zip_file: user_was_created =
\* operation_type == 'created', counted in users_created
Summary(nims) ==
    [users_created |-> Cardinality({n \in nims : operation_type(n) = "created"}),
     embeddings_saved |-> Cardinality(nims),
     results |-> [n \in nims |-> [status |-> "success",
                                  user_created |-> operation_type(n) = "created",
                                  embedding_saved |-> TRUE]]]

bulk_face_registration(photos) ==
    /\ LoopFree
    /\ Serving
    /\ users' = users \cup UsersAdded(DOMAIN photos)
    /\ mahasiswa' = mahasiswa \cup DOMAIN photos
    /\ embedding' = embedding \cup DOMAIN photos
    /\ embedding_data' = [n \in DOMAIN photos |-> Normalize(photos[n])] @@ embedding_data
    /\ resp' = [op |-> "bulk", code |-> 200, info |-> Summary(DOMAIN photos)]
    /\ UNCHANGED <<cacheVars, temp_videos, enrollment, jadwal, log_absensi, next_log_id, video_tasks, tasks_db,
                   analyzer, inflight, today, known_ids, known_matrix, handlers>>

\* ---------------------------------------------------------- admin_delete_mhs
\* kelas_enrollment.nim and log_absensi.nim reference mahasiswa.nim: the
\* delete of a referenced row fails at the store and the handler raises.
admin_delete_mhs(h, nim) ==
    /\ LoopFree
    /\ Serving
    /\ handlers[h] = IdleHandler
    /\ IF \/ \E e \in enrollment : e.nim = nim
          \/ \E l \in log_absensi : l.nim = nim
       THEN /\ resp' = Response("delete_mhs", 500)
            /\ UNCHANGED <<mahasiswa, embedding, embedding_data, handlers>>
       ELSE /\ mahasiswa' = mahasiswa \ {nim}
            /\ embedding' = embedding \ {nim}
            /\ embedding_data' = [n \in DOMAIN embedding_data \ {nim} |-> embedding_data[n]]
            /\ handlers' = [handlers EXCEPT ![h] = Reloading("delete_mhs", nim, <<>>)]
            /\ UNCHANGED resp
    /\ UNCHANGED <<cacheVars, users, temp_videos, enrollment, jadwal, log_absensi, next_log_id,
                   video_tasks, tasks_db, analyzer, inflight, today, known_ids, known_matrix>>

\* the frame loop identifies a face: nim_result, score_result
Identify(embedding_in) ==
    /\ LoopFree
    /\ Serving
    /\ resp' = [op |-> "identify", code |-> 200, info |-> identify_face_fast(embedding_in)]
    /\ UNCHANGED <<cacheVars, users, temp_videos, storeVars, log_absensi, next_log_id, video_tasks, tasks_db, analyzer,
                   inflight, today, indexVars>>

\* ---------------------------------------------------------- delete_enrollment
\* the columns of KelasEnrollment
EnrollmentColumns == {"enrollment_id", "nim", "student_class_id", "enrolled_at"}

\* The handler reads enrollment.nim and enrollment.kelas_id before db.delete:
\* an attribute KelasEnrollment does not have raises AttributeError, and the
\* handler ends there.
delete_enrollment(enrollment_id) ==
    /\ IF ~\E e \in enrollment : e.enrollment_id = enrollment_id
       THEN /\ resp' = Response("delete_enrollment", 404)
            /\ UNCHANGED enrollment
       ELSE IF {"nim", "kelas_id"} \subseteq EnrollmentColumns
       THEN /\ enrollment' = {e \in enrollment : e.enrollment_id # enrollment_id}
            /\ resp' = Response("delete_enrollment", 200)
       ELSE /\ resp' = Response("delete_enrollment", 500)
            /\ UNCHANGED enrollment
    /\ UNCHANGED <<cacheVars, users, temp_videos, mahasiswa, embedding, jadwal, indexVars,
                   log_absensi, next_log_id, video_tasks, tasks_db, analyzer, inflight, today>>

\* ---------------------------------------------------------- admin_list_kelas
\* SystemStateManager.is_cache_valid(cache_time)
is_cache_valid(cache_time) ==
    IF cache_time = NoTime THEN FALSE
    ELSE (now - cache_time) * TickSeconds < CACHE_TTL_SECONDS

\* SystemStateManager.invalidate_cache("kelas")
invalidate_cache == NoCache

\* GET /admin/kelas: the cached list while it is valid and not empty, or the
\* rows of the store, which it caches
admin_list_kelas ==
    /\ IF is_cache_valid(cache_kelas_time) /\ cache_kelas # NoCache /\ cache_kelas # <<>>
       THEN /\ resp' = [op |-> "list_kelas", code |-> 200, info |-> cache_kelas]
            /\ UNCHANGED <<cache_kelas, cache_kelas_time>>
       ELSE /\ cache_kelas' = kelas
            /\ cache_kelas_time' = now
            /\ resp' = [op |-> "list_kelas", code |-> 200, info |-> kelas]
    /\ UNCHANGED <<kelas, next_kelas_id, now, users, temp_videos, storeVars, indexVars,
                   log_absensi, next_log_id, video_tasks, tasks_db, analyzer, inflight, today>>

\* POST /admin/kelas: the row is committed and the cache invalidated
admin_create_kelas(nama_matkul) ==
    /\ kelas' = (next_kelas_id :> nama_matkul) @@ kelas
    /\ next_kelas_id' = next_kelas_id + 1
    /\ cache_kelas' = invalidate_cache
    /\ resp' = Response("create_kelas", 200)
    /\ UNCHANGED <<cache_kelas_time, now, users, temp_videos, storeVars, indexVars,
                   log_absensi, next_log_id, video_tasks, tasks_db, analyzer, inflight, today>>

\* PUT /admin/kelas/{kelas_id}: 404 without the row; the row is updated and
\* committed
update_kelas(kelas_id, nama_matkul) ==
    /\ IF kelas_id \notin DOMAIN kelas
       THEN /\ resp' = Response("update_kelas", 404)
            /\ UNCHANGED kelas
       ELSE /\ kelas' = [kelas EXCEPT ![kelas_id] = nama_matkul]
            /\ resp' = Response("update_kelas", 200)
    /\ UNCHANGED <<next_kelas_id, cache_kelas, cache_kelas_time, now, users, temp_videos,
                   storeVars, indexVars, log_absensi, next_log_id, video_tasks, tasks_db,
                   analyzer, inflight, today>>

\* DELETE /admin/kelas/{kelas_id}: 404 without the row; the row is deleted and
\* the delete committed
delete_kelas(kelas_id) ==
    /\ IF kelas_id \notin DOMAIN kelas
       THEN /\ resp' = Response("delete_kelas", 404)
            /\ UNCHANGED kelas
       ELSE /\ kelas' = [k \in DOMAIN kelas \ {kelas_id} |-> kelas[k]]
            /\ resp' = Response("delete_kelas", 200)
    /\ UNCHANGED <<next_kelas_id, cache_kelas, cache_kelas_time, now, users, temp_videos,
                   storeVars, indexVars, log_absensi, next_log_id, video_tasks, tasks_db,
                   analyzer, inflight, today>>

\* the clock moves on by TickSeconds
Tick ==
    /\ now < MaxTicks
    /\ now' = now + 1
    /\ UNCHANGED <<kelas, next_kelas_id, cache_kelas, cache_kelas_time, users, temp_videos,
                   storeVars, indexVars, log_absensi, next_log_id, video_tasks, tasks_db,
                   analyzer, inflight, today, resp>>

\* ------------------------------------------------ get_session_attendance_sync
\* mutant of AttendanceStatus: a row of the close counts as present
AttendanceStatusByRow(log_data) ==
    IF log_data = {} THEN "ALPHA"
    ELSE LET l == CHOOSE x \in log_data : TRUE
         IN IF l.is_disputed THEN "LAPOR" ELSE "HADIR"

\* status of one student: log_data is attendance_map.get(student.nim)
AttendanceStatus(log_data) ==
    IF log_data = {} THEN "ALPHA"
    ELSE LET l == CHOOSE x \in log_data : TRUE
         IN IF l.is_disputed THEN "LAPOR"
            ELSE IF l.metode = "ALPHA_SYSTEM" THEN "ALPHA"
            ELSE "HADIR"

\* one element of final_response_data
AttendanceRow(nim, log_data) ==
    LET l == CHOOSE x \in log_data : TRUE
    IN [nim |-> nim,
        status |-> AttendanceStatus(log_data),
        metode |-> IF log_data = {} THEN "-" ELSE l.metode,
        is_disputed |-> IF log_data = {} THEN FALSE ELSE l.is_disputed,
        keterangan_report |-> IF log_data = {} THEN NoText ELSE l.keterangan_report,
        bukti_foto |-> IF log_data = {} THEN NoPhoto ELSE l.bukti_foto]

\* select(Mahasiswa).join(KelasEnrollment, nim and student_class_id)
\* .where(embedding_data.isnot(None)): one result per enrollment row
EnrolledStudents(student_class_id) ==
    {e \in enrollment : /\ e.student_class_id = student_class_id
                        /\ e.nim \in mahasiswa
                        /\ e.nim \in embedding}

\* the sort key (status != 'LAPOR', status != 'HADIR', nama); the name of a
\* student of the model is "Mahasiswa " + nim
SortKey(row) ==
    LET pos == CHOOSE i \in 1..4 : <<"s1", "s2", "s3", "s4">>[i] = row.nim
    IN (IF row.status = "LAPOR" THEN 0 ELSE IF row.status = "HADIR" THEN 10 ELSE 20) + pos

\* final_response_data after the sort: attendance_map keeps one row of
\* logs_list per nim, and the sort is by SortKey
AttendanceViews(jadwal_id) ==
    LET students == EnrolledStudents(jadwal[jadwal_id])
        nims == {e.nim : e \in students}
        logs(n) == First(LogsOf(log_absensi, n, jadwal_id, today))
        picks == {p \in [nims -> UNION {logs(n) : n \in nims}] : \A n \in nims : p[n] \in logs(n)}
        rows(o, p) == [i \in 1..Cardinality(students) |-> AttendanceRow(o[i].nim, p[o[i].nim])]
    IN {r \in {rows(o, p) : o \in Orders(students), p \in picks} :
           \A i, k \in DOMAIN r : i < k => SortKey(r[i]) <= SortKey(r[k])}

\* GET /dosen/class/{jadwal_id}/attendance
get_session_attendance_sync(jadwal_id) ==
    /\ IF jadwal_id \notin DOMAIN jadwal
       THEN resp' = Response("attendance", 404)
       ELSE IF jadwal[jadwal_id] = 0
       THEN resp' = Response("attendance", 400)
       ELSE \E v \in AttendanceViews(jadwal_id) :
               resp' = [op |-> "attendance", code |-> 200, info |-> v]
    /\ UNCHANGED <<cacheVars, users, temp_videos, storeVars, indexVars, log_absensi,
                   next_log_id, video_tasks, tasks_db, analyzer, inflight, today>>

\* --------------------------------------------------------- specifications
\* a video analysis has been submitted and has not ended
Analysing == \E t \in Tasks : analyzer[t].pc \notin {"idle", "done"}

\* a video analysis is between its commit and its return
Returning == \E t \in Tasks : analyzer[t].pc = "committed"

\* Spec: the ledger operations run one at a time, each from its first read to
\* its end, and the videos one after the other, on jadwal 1 (and on the
\* jadwal id 3 that has no row).
SeqJadwal == {1, 3}

\* the nims manual entry is asked for: enrolled in the class of jadwal 1, not
\* enrolled in it, without a row
ManualNims == {"s1", "s2", "s4"}

\* the outcomes of a frame loop Spec draws from: the evidence of s2, who is
\* not enrolled in the class of jadwal 1 and is skipped, is the least one
SeqDetected(task_id) ==
    {d \in DetectedStudents(task_id) :
        "s2" \in DOMAIN d => d["s2"] = [count |-> 1, emosi |-> EmptyTally, sample |-> NoPhoto]}

Next ==
    \/ ~Analysing /\ \E t \in Tasks, j \in SeqJadwal : endpoint_analyze_video(t, j)
    \/ \E t \in Tasks : AnalyzerStart(t)
    \/ \E t \in Tasks : analyzer[t].pc = "scan" /\ \E d \in SeqDetected(t) : VideoApply(t, d)
    \/ \E t \in Tasks : AnalyzerReturn(t)
    \/ ~Returning /\ \E n \in ManualNims, j \in SeqJadwal : endpoint_manual_absen(n, j)
    \/ ~Returning /\ \E j \in SeqJadwal : close_class_session(j)
    \/ ~Returning /\ \E u \in mahasiswa, id \in 1..next_log_id, a \in Reasons, f \in BOOLEAN :
           student_submit_report(u, id, a, f)

Spec == Init /\ [][Next]_vars

\* SpecScenario: videos for jadwal 2 (its class is s1 and s2, both with an
\* embedding) one after the other, and a close that can be served as soon as a
\* video's ledger session has committed.
ScenarioJadwal == {2}

NextScenario ==
    \/ ~Analysing /\ \E t \in Tasks, j \in ScenarioJadwal : endpoint_analyze_video(t, j)
    \/ \E t \in Tasks : AnalyzerStart(t)
    \/ \E t \in Tasks : analyzer[t].pc = "scan" /\ \E d \in DetectedStudents(t) : VideoApply(t, d)
    \/ \E t \in Tasks : AnalyzerReturn(t)
    \/ \E j \in ScenarioJadwal : close_class_session(j)

SpecScenario == Init /\ [][NextScenario]_vars

\* SpecReport: disputes next to manual entries for jadwal 1 and an
\* administrator who binds jadwal 1 to another student class, one at a time.
ReportNims == {"s1", "s3"}

NextReport ==
    \/ \E n \in ReportNims : endpoint_manual_absen(n, 1)
    \/ \E j \in SeqJadwal, c \in ClassIds \cup {0} : update_jadwal(j, c)
    \/ \E u \in mahasiswa, id \in 1..next_log_id, a \in Reasons, f \in BOOLEAN :
           student_submit_report(u, id, a, f)

SpecReport == Init /\ [][NextReport]_vars

\* SpecPipeline: videos of jadwal 1 and jadwal 2 one after the other, the steps
\* of an analysis interleaved with closes; an analysis can fail in its frame
\* loop and in its ledger session.  A frame loop ends with s1 and s2 seen once, or s1
\* alone seen up to MaxCount times.
PipelineJadwal == {1, 2}

PipelineDetected(task_id) ==
    {d \in DetectedStudents(task_id) :
        /\ "s1" \in DOMAIN d
        /\ \A n \in DOMAIN d : d[n].sample = NoPhoto
        /\ "s2" \in DOMAIN d => \A n \in DOMAIN d : d[n].count = 1}

NextPipeline ==
    \/ ~Analysing /\ \E t \in Tasks, j \in PipelineJadwal : endpoint_analyze_video(t, j)
    \/ \E t \in Tasks : AnalyzerStart(t)
    \/ \E t \in Tasks : AnalyzerFrame(t)
    \/ \E t \in Tasks : analyzer[t].pc = "scan" /\ \E d \in PipelineDetected(t) : AnalyzerScanDone(t, d)
    \/ \E t \in Tasks, n \in Nims : AnalyzerUpsert(t, n)
    \/ \E t \in Tasks : AnalyzerCommit(t)
    \/ \E t \in Tasks : AnalyzerReturn(t)
    \/ \E t \in Tasks : AnalyzerRaise(t)
    \/ \E t \in Tasks : AnalyzerMarkFailed(t)
    \/ \E j \in PipelineJadwal : close_class_session(j)

SpecPipeline == Init /\ [][NextPipeline]_vars

\* SpecConc: the coroutines of the event loop interleave at their awaits.  Two
\* videos of jadwal 1 that detect s1, next to manual entries for s1 and closes
\* of jadwal 1, each split at the await of its commit; an analysis can fail.
ConcDetected(task_id) ==
    {d \in DetectedStudents(task_id) :
        DOMAIN d = {"s1"} /\ d["s1"].sample = NoPhoto}

Admitting == Cardinality(inflight) < MaxInFlight

NextConc ==
    \/ \E t \in Tasks : endpoint_analyze_video(t, 1)
    \/ \E t \in Tasks : AnalyzerStart(t)
    \/ \E t \in Tasks : analyzer[t].pc = "scan" /\ \E d \in ConcDetected(t) : AnalyzerScanDone(t, d)
    \/ \E t \in Tasks, n \in Nims : AnalyzerUpsert(t, n)
    \/ \E t \in Tasks : AnalyzerCommit(t)
    \/ \E t \in Tasks : AnalyzerReturn(t)
    \/ \E t \in Tasks : AnalyzerRaise(t)
    \/ \E t \in Tasks : AnalyzerMarkFailed(t)
    \/ Admitting /\ ManualBegin("s1", 1)
    \/ \E r \in inflight : ManualCommit(r)
    \/ Admitting /\ CloseBegin(1)
    \/ \E r \in inflight : CloseCommit(r)

SpecConc == Init /\ [][NextConc]_vars

\* The identity index: the reload of startup, face registrations one by one
\* and in bulk, the delete of a student, and the queries of a frame loop,
\* with up to MaxHandlers handlers between their store write and the end of
\* their reload.
RegisterNims == {"s4"}
BulkNims == {"s4"}
DeleteNims == {"s3", "s4"}
BulkEmbeddings == {<<2, 2, 2, 2>>}
QueryEmbeddings == RawEmbeddings \cup {<<3, 4, 0, 0>>, <<0, 0, 0, 2>>, <<1, -1, 1, -1>>}

\* the zip archives of a bulk registration
Photos == UNION {[S -> BulkEmbeddings] : S \in SUBSET BulkNims \ {{}}}

NextIndex ==
    \/ \E h \in Handlers : handlers[h].pc = "reload" /\ \E o \in Orders(embedding) : ReloadRead(h, o)
    \/ \E h \in Handlers : ReloadFail(h)
    \/ \E h \in Handlers : ReloadSwapIds(h)
    \/ \E h \in Handlers : ReloadSwapMatrix(h)
    \/ \E h \in Handlers, n \in RegisterNims, e \in RawEmbeddings :
           register_face_endpoint(h, n, <<e>>)
    \/ \E h \in Handlers, n \in RegisterNims : register_face_endpoint(h, n, <<>>)
    \/ \E p \in Photos : bulk_face_registration(p)
    \/ \E h \in Handlers, n \in DeleteNims : admin_delete_mhs(h, n)
    \/ \E e \in QueryEmbeddings : Identify(e)

SpecIndex == Init /\ [][NextIndex]_vars

\* The frame loop of one video after the other, face by face, for videos of
\* several frame rates and lengths, followed by the ledger session.
FpsTenths == {0, 5, 10}
FrameCounts == {0, 2}
ApiOutcomes == Labels \cup {"fail", "none"}
FrameJadwal == {1}
FrameTasks == {1}

\* what the detector and the identification return for one frame
\* s1 with and without a usable crop, s2, and a face nobody matches
Faces ==
    {[nim_result |-> "s1", crop |-> TRUE], [nim_result |-> "s1", crop |-> FALSE],
     [nim_result |-> "s2", crop |-> TRUE], [nim_result |-> "Unknown", crop |-> FALSE]}

FaceLists == UNION {[1..n -> Faces] : n \in 0..MaxFaces}

Released(t) ==
    /\ analyzer[t].pc = "scan"
    /\ "loop" \in DOMAIN analyzer[t]
    /\ analyzer[t].loop = "released"

NextFrames ==
    \/ ~Analysing /\ \E t \in FrameTasks, j \in FrameJadwal : endpoint_analyze_video(t, j)
    \/ \E t \in Tasks : AnalyzerStart(t)
    \/ \E t \in Tasks, fps \in FpsTenths, n \in FrameCounts : FrameOpen(t, fps, n)
    \/ \E t \in Tasks : "loop" \notin DOMAIN analyzer[t] /\ AnalyzerRaise(t)
    \/ \E t \in Tasks : AnalyzerMarkFailed(t)
    \/ \E t \in Tasks : FrameRead(t, FALSE, <<>>)
    \/ \E t \in Tasks : analyzer[t].pc = "scan" /\ \E f \in FaceLists : FrameRead(t, TRUE, f)
    \/ \E t \in Tasks, api \in ApiOutcomes : FrameFace(t, api)
    \/ \E t \in Tasks : FrameNext(t)
    \/ \E t \in Tasks : Released(t) /\ AnalyzerScanDone(t, analyzer[t].detected_students)
    \/ \E t \in Tasks, n \in Nims : AnalyzerUpsert(t, n)
    \/ \E t \in Tasks : AnalyzerCommit(t)
    \/ \E t \in Tasks : AnalyzerReturn(t)

SpecFrames == Init /\ [][NextFrames]_vars

\* SpecBinding: the sessions jadwal 1 and jadwal 2 on one day, one operation
\* at a time: videos that detect s1 (enrolled in the classes of both), manual
\* entries for s1 and s2, closes, and an administrator who deletes
\* enrollments.
BindingNims == {"s1"}
EnrollmentIds == {1, 2, 5}

\* a frame loop that saw s1 once and kept no crop
BindingDetected(task_id) ==
    {d \in DetectedStudents(task_id) :
        DOMAIN d = {"s1"} /\ d["s1"] = [count |-> 1, emosi |-> EmptyTally, sample |-> NoPhoto]}

NextBinding ==
    \/ ~Analysing /\ \E t \in Tasks, j \in PipelineJadwal : endpoint_analyze_video(t, j)
    \/ \E t \in Tasks : AnalyzerStart(t)
    \/ \E t \in Tasks : analyzer[t].pc = "scan" /\ \E d \in BindingDetected(t) : VideoApply(t, d)
    \/ \E t \in Tasks : AnalyzerReturn(t)
    \/ ~Returning /\ \E n \in BindingNims, j \in PipelineJadwal : endpoint_manual_absen(n, j)
    \/ ~Returning /\ \E j \in PipelineJadwal : close_class_session(j)
    \/ ~Returning /\ \E id \in EnrollmentIds : delete_enrollment(id)

SpecBinding == Init /\ [][NextBinding]_vars

\* SpecKelas: an administrator lists, creates, updates and deletes courses
\* while the clock runs, one request at a time.
KelasNames == {"Basis Data", "Jaringan"}

NextKelas ==
    \/ admin_list_kelas
    \/ next_kelas_id <= MaxKelas /\ \E n \in KelasNames : admin_create_kelas(n)
    \/ \E k \in 1..MaxKelas, n \in KelasNames : update_kelas(k, n)
    \/ \E k \in 1..MaxKelas : delete_kelas(k)
    \/ Tick

SpecKelas == Init /\ [][NextKelas]_vars

\* SpecView: the dashboard of a lecturer next to the ledger operations of
\* jadwal 2 (student class 2: s1 and s2, both with a face), one request at a
\* time: videos that detect s1, manual entries, closes, disputes, and the
\* attendance view of every jadwal id.
ViewJadwal == {2}
ViewNims == {"s1", "s3"}

NextView ==
    \/ ~Analysing /\ \E t \in Tasks, j \in ViewJadwal : endpoint_analyze_video(t, j)
    \/ \E t \in Tasks : AnalyzerStart(t)
    \/ \E t \in Tasks : analyzer[t].pc = "scan" /\ \E d \in BindingDetected(t) : VideoApply(t, d)
    \/ \E t \in Tasks : AnalyzerReturn(t)
    \/ ~Returning /\ \E n \in ViewNims, j \in ViewJadwal : endpoint_manual_absen(n, j)
    \/ ~Returning /\ \E j \in ViewJadwal : close_class_session(j)
    \/ ~Returning /\ \E u \in ViewNims, id \in 1..next_log_id, a \in Reasons :
           student_submit_report(u, id, a, TRUE)
    \/ ~Returning /\ \E j \in JadwalIds : get_session_attendance_sync(j)

SpecView == Init /\ [][NextView]_vars

\* SpecLost: a day on which an earlier video of jadwal 1 has left the AI_VIDEO
\* row of s1 with a count of 1, and the videos of the behaviour, each of which
\* sees s1 once, are analysed by coroutines that interleave at their awaits.
EarlierTask == NumTasks + 1

InitLost ==
    /\ mahasiswa = {"s1", "s2", "s3"}
    /\ embedding = {"s1", "s2"}
    /\ enrollment = {[enrollment_id |-> 1, nim |-> "s1", student_class_id |-> 1],
                     [enrollment_id |-> 2, nim |-> "s1", student_class_id |-> 2],
                     [enrollment_id |-> 3, nim |-> "s2", student_class_id |-> 2],
                     [enrollment_id |-> 4, nim |-> "s3", student_class_id |-> 1]}
    /\ jadwal = (1 :> 1) @@ (2 :> 2)
    /\ today = 1
    /\ log_absensi = {LogRow(1, EarlierTask, "s1", 1, today, "AI_VIDEO", 1, "Neutral", NoPhoto)}
    /\ next_log_id = 2
    /\ video_tasks = (EarlierTask :> [jadwal_id |-> 1, status |-> "completed", is_closed |-> FALSE])
    /\ tasks_db = (EarlierTask :> [status |-> "completed", progress |-> 100, error |-> NoText])
    /\ analyzer = [t \in Tasks |-> IdleAnalyzer]
    /\ inflight = {}
    /\ resp = Response("none", 0)
    /\ embedding_data = ("s1" :> <<6, 8, 0, 0>>) @@ ("s2" :> <<5, 5, 5, 5>>)
    /\ known_ids = <<>>
    /\ known_matrix = NoMatrix
    /\ handlers = [h \in Handlers |-> IF h = 1 THEN StartupHandler ELSE IdleHandler]
    /\ kelas = (1 :> "Basis Data")
    /\ next_kelas_id = 2
    /\ cache_kelas = NoCache
    /\ cache_kelas_time = NoTime
    /\ now = 0
    /\ users = {"s1", "s2", "s3"}
    /\ temp_videos = {}

NextLost ==
    \/ \E t \in Tasks : endpoint_analyze_video(t, 1)
    \/ \E t \in Tasks : AnalyzerStart(t)
    \/ \E t \in Tasks : AnalyzerFrame(t)
    \/ \E t \in Tasks : analyzer[t].pc = "scan" /\ \E d \in BindingDetected(t) : AnalyzerScanDone(t, d)
    \/ \E t \in Tasks, n \in Nims : AnalyzerUpsert(t, n)
    \/ \E t \in Tasks : AnalyzerCommit(t)
    \/ \E t \in Tasks : AnalyzerReturn(t)
    \/ \E t \in Tasks : AnalyzerRaise(t)
    \/ \E t \in Tasks : AnalyzerMarkFailed(t)

SpecLost == InitLost /\ [][NextLost]_vars

\* SpecError: the frame loop of a video of jadwal 1 whose faces are
\* identified as s1, as nobody, or not at all because the similarity
\* computation raised, followed by the ledger session.
ErrorFaces == {[nim_result |-> "s1", crop |-> TRUE],
               [nim_result |-> "Unknown", crop |-> TRUE],
               [nim_result |-> "Error", crop |-> TRUE]}
ErrorFaceLists == UNION {[1..n -> ErrorFaces] : n \in 0..MaxFaces}

NextError ==
    \/ ~Analysing /\ \E t \in FrameTasks, j \in FrameJadwal : endpoint_analyze_video(t, j)
    \/ \E t \in Tasks : AnalyzerStart(t)
    \/ \E t \in Tasks : FrameOpen(t, 10, TotalFrames)
    \/ \E t \in Tasks : FrameRead(t, FALSE, <<>>)
    \/ \E t \in Tasks : analyzer[t].pc = "scan" /\ \E f \in ErrorFaceLists : FrameRead(t, TRUE, f)
    \/ \E t \in Tasks, api \in ApiOutcomes : FrameFace(t, api)
    \/ \E t \in Tasks : FrameNext(t)
    \/ \E t \in Tasks : Released(t) /\ AnalyzerScanDone(t, analyzer[t].detected_students)
    \/ \E t \in Tasks, n \in Nims \cup {"Error"} : AnalyzerUpsert(t, n)
    \/ \E t \in Tasks : AnalyzerCommit(t)
    \/ \E t \in Tasks : AnalyzerReturn(t)

SpecError == Init /\ [][NextError]_vars

\* ------------------------------------------------------------------ claims
\* the analysis of task t applies its evidence in this step
Applies(t) == analyzer[t].pc \in {"scan", "upsert"} /\ analyzer'[t].pc = "committed"

\* nim is enrolled in the student class of an existing jadwal
Enrolled(nim, jadwal_id) ==
    /\ nim \in mahasiswa
    /\ jadwal_id \in DOMAIN jadwal
    /\ \E e \in enrollment : e.nim = nim /\ e.student_class_id = jadwal[jadwal_id]

\* C1: with the operations run one at a time, the ledger never holds two
\* rows of the same (nim, jadwal_id, calendar day).
UniqueAttendanceKey ==
    \A l1, l2 \in log_absensi :
        (l1.nim = l2.nim /\ l1.jadwal_id = l2.jadwal_id /\ l1.waktu_absen = l2.waktu_absen)
            => l1.log_id = l2.log_id

\* a video inserted today's row of s1, a dispute stored a photo on it, a manual
\* entry took it over and the session was closed
UniqueAttendanceKeyWitness ==
    /\ \E l \in TodayLogs("s1", 1, today) :
          /\ l.task_id # NoTask
          /\ l.metode = "MANUAL_DOSEN"
          /\ l.bukti_foto = ReportPath("s1", l.log_id)
    /\ \E t \in DOMAIN video_tasks : video_tasks[t].is_closed
    /\ resp.op = "close"

\* C3: a video applying its evidence creates no row and changes no row of a
\* detected student who is not enrolled in the class of the video's jadwal.
AutoEvidenceSkipsNotEnrolled ==
    [][\A t \in Tasks : Applies(t) =>
          \A n \in DOMAIN analyzer'[t].detected :
              ~Enrolled(n, analyzer[t].jadwal_id) =>
                  {l \in log_absensi' : l.nim = n} = {l \in log_absensi : l.nim = n}]_vars

\* a video that detected s1 and s2 has been applied for jadwal 1: s1 got a
\* row, s2 (not enrolled) was skipped and has none
AutoEvidenceSkipsNotEnrolledWitness ==
    \E t \in Tasks :
        /\ analyzer[t].pc = "committed"
        /\ DOMAIN analyzer[t].detected = {"s1", "s2"}
        /\ ~Enrolled("s2", analyzer[t].jadwal_id)
        /\ analyzer[t].skipped_count = 1
        /\ analyzer[t].processed_count = 1
        /\ TodayLogs("s2", analyzer[t].jadwal_id, today) = {}

\* C4: a video applying its evidence leaves today's MANUAL_DOSEN or ALPHA_SYSTEM
\* row of a detected student as it is, in every field.
AutoEvidenceKeepsManualAndAbsent ==
    [][\A t \in Tasks : Applies(t) =>
          \A n \in DOMAIN analyzer'[t].detected :
              \A l \in TodayLogs(n, analyzer[t].jadwal_id, today) :
                  l.metode \in {"MANUAL_DOSEN", "ALPHA_SYSTEM"} => l \in log_absensi']_vars

\* a video that detected s1 has been applied while today's row of s1 was a
\* manual entry: nothing was processed
AutoEvidenceKeepsManualAndAbsentWitness ==
    \E t \in Tasks :
        /\ analyzer[t].pc = "committed"
        /\ "s1" \in DOMAIN analyzer[t].detected
        /\ analyzer[t].processed_count = 0
        /\ \E l \in TodayLogs("s1", analyzer[t].jadwal_id, today) : l.metode = "MANUAL_DOSEN"

\* C5: a video applied for an enrolled student inserts a row with its own
\* count, crop and affect when there is none today, and when today's row is an
\* AI_VIDEO row it adds its count to jumlah_muncul and leaves every other
\* field (bukti_foto and emosi_dominan of the first video) as it is.
SecondVideoAddsCountOnly ==
    [][\A t \in Tasks : Applies(t) =>
          \A n \in DOMAIN analyzer'[t].detected :
              Enrolled(n, analyzer[t].jadwal_id) =>
                  LET meta == analyzer'[t].detected[n]
                      old == TodayLogs(n, analyzer[t].jadwal_id, today)
                      new == LogsOf(log_absensi', n, analyzer[t].jadwal_id, today)
                  IN /\ old = {} =>
                          \E l \in new : /\ new = {l}
                                          /\ l.metode = "AI_VIDEO"
                                          /\ l.jumlah_muncul = meta.count
                                          /\ l.bukti_foto = meta.sample
                                          /\ l.emosi_dominan = DominantEmotion(meta.emosi)
                     /\ \A l \in old : l.metode = "AI_VIDEO" =>
                          new = {[l EXCEPT !.jumlah_muncul = l.jumlah_muncul + meta.count]}]_vars

\* the second video has been applied: the row of s1 still carries the first
\* video's task, crop and affect, which differ from the second video's
SecondVideoAddsCountOnlyWitness ==
    \E t \in Tasks :
        /\ analyzer[t].pc = "committed"
        /\ "s1" \in DOMAIN analyzer[t].detected
        /\ \E l \in TodayLogs("s1", analyzer[t].jadwal_id, today) :
              /\ l.metode = "AI_VIDEO"
              /\ l.task_id # t
              /\ l.jumlah_muncul >= 2
              /\ l.bukti_foto = NoPhoto
              /\ l.emosi_dominan = "Neutral"
              /\ analyzer[t].detected["s1"].sample = CropPath(t, "s1")
              /\ DominantEmotion(analyzer[t].detected["s1"].emosi) = "happy"

\* C6: a manual entry for an enrolled student leaves exactly one row of
\* (nim, jadwal_id, today), with metode MANUAL_DOSEN, is_disputed false and no
\* keterangan_report; a row it inserted has jumlah_muncul 1.
ManualEntryOverwrites ==
    [][\A n \in Nims, j \in JadwalIds :
          (Enrolled(n, j) /\ endpoint_manual_absen(n, j)) =>
              \E l \in LogsOf(log_absensi', n, j, today) :
                  /\ LogsOf(log_absensi', n, j, today) = {l}
                  /\ l.metode = "MANUAL_DOSEN"
                  /\ l.is_disputed = FALSE
                  /\ l.keterangan_report = NoText
                  /\ (TodayLogs(n, j, today) = {} => l.jumlah_muncul = 1)]_vars

\* a manual entry has just taken over a row that a video inserted and a
\* dispute flagged with a photo
ManualEntryOverwritesWitness ==
    /\ resp = Response("manual", 200)
    /\ \E l \in TodayLogs("s1", 1, today) :
          /\ l.metode = "MANUAL_DOSEN"
          /\ l.task_id # NoTask
          /\ l.bukti_foto = ReportPath("s1", l.log_id)
          /\ ~l.is_disputed

\* C7: a manual entry for an unknown student, an unknown jadwal or a student
\* not enrolled in the class of the jadwal is answered 403 or 404 and writes
\* nothing.
ManualEntryRejectsNotEnrolled ==
    [][\A n \in Nims, j \in JadwalIds :
          (~Enrolled(n, j) /\ endpoint_manual_absen(n, j)) =>
              /\ resp'.op = "manual"
              /\ resp'.code \in {403, 404}
              /\ log_absensi' = log_absensi
              /\ next_log_id' = next_log_id]_vars

\* a manual entry for a student who is not enrolled has just been refused
\* while the ledger holds rows of today
ManualEntryRejectsNotEnrolledWitness ==
    /\ resp = Response("manual", 403)
    /\ \E l \in log_absensi : l.waktu_absen = today

\* C8: a close of a jadwal that follows a close of the same jadwal inserts no
\* row: the ALPHA_SYSTEM rows are those of the first close.
CloseTwiceInsertsNothing ==
    [][\A j \in JadwalIds :
          (/\ resp.op = "close"
           /\ resp.code = 200
           /\ resp.info[1] = j
           /\ close_class_session(j)) => log_absensi' = log_absensi]_vars

\* a close has just found the ALPHA_SYSTEM row of an earlier close and
\* inserted nothing
CloseTwiceInsertsNothingWitness ==
    /\ resp.op = "close"
    /\ resp.code = 200
    /\ resp.info[3] = 0
    /\ \E l \in TodayLogs("s1", resp.info[1], today) : l.metode = "ALPHA_SYSTEM"

\* C9: a close inserts one ALPHA_SYSTEM row with jumlah_muncul 0 for every
\* student enrolled in the class of the jadwal who has an embedding and no
\* row of the jadwal today, inserts nothing else and changes no row.
CloseInsertsAbsentOnly ==
    [][\A j \in DOMAIN jadwal : close_class_session(j) =>
          LET absent == {n \in Nims : /\ Enrolled(n, j)
                                       /\ n \in embedding
                                       /\ TodayLogs(n, j, today) = {}}
              new == log_absensi' \ log_absensi
          IN /\ log_absensi \subseteq log_absensi'
             /\ {l.nim : l \in new} = absent
             /\ Cardinality(new) = Cardinality(absent)
             /\ \A l \in new : /\ l.metode = "ALPHA_SYSTEM"
                                /\ l.jumlah_muncul = 0
                                /\ l.jadwal_id = j
                                /\ l.waktu_absen = today
                                /\ l.is_disputed = FALSE]_vars

\* a close has just marked s1 absent; s3, enrolled without an embedding, has
\* no row
CloseInsertsAbsentOnlyWitness ==
    /\ resp.op = "close"
    /\ resp.code = 200
    /\ resp.info[3] = 1
    /\ \E l \in TodayLogs("s1", 1, today) : l.metode = "ALPHA_SYSTEM"
    /\ Enrolled("s3", 1)
    /\ \A l \in log_absensi : l.nim # "s3"

\* C2: under every interleaving of the lookups and the commits of two videos
\* of one jadwal, and of a video with a manual entry or a close of that jadwal,
\* no state holds two rows of the same (nim, jadwal_id, calendar day).
NoDuplicateKeyUnderInterleaving ==
    \A n \in Nims, j \in JadwalIds, d \in {Yesterday, today} :
        Cardinality(LogsOf(log_absensi, n, j, d)) <= 1

\* C10: when a close of a jadwal follows the commit of a video of that jadwal
\* and the jadwal's rows of today are those the video wrote, every student
\* enrolled in the class with an embedding has exactly one row of today:
\* AI_VIDEO with the count of the video if it detected the student,
\* ALPHA_SYSTEM with jumlah_muncul 0 if not.
VideoThenClose ==
    [][\A t \in Tasks, j \in DOMAIN jadwal :
          (/\ analyzer[t].pc = "committed"
           /\ analyzer[t].jadwal_id = j
           /\ \A l \in log_absensi :
                 (l.jadwal_id = j /\ l.waktu_absen = today) => l.task_id = t
           /\ close_class_session(j)) =>
              \A n \in Nims : (Enrolled(n, j) /\ n \in embedding) =>
                  \E l \in LogsOf(log_absensi', n, j, today) :
                      /\ LogsOf(log_absensi', n, j, today) = {l}
                      /\ IF n \in DOMAIN analyzer[t].detected
                         THEN /\ l.metode = "AI_VIDEO"
                              /\ l.jumlah_muncul = analyzer[t].detected[n].count
                         ELSE /\ l.metode = "ALPHA_SYSTEM"
                              /\ l.jumlah_muncul = 0]_vars

\* jadwal 2 has just been closed after a video that saw s1 twice and did not
\* see s2: s1 has the video's row with jumlah_muncul 2, s2 an ALPHA_SYSTEM row
VideoThenCloseWitness ==
    /\ resp.op = "close"
    /\ resp.code = 200
    /\ resp.info[1] = 2
    /\ \E t \in Tasks :
          /\ analyzer[t].pc = "committed"
          /\ analyzer[t].jadwal_id = 2
          /\ DOMAIN analyzer[t].detected = {"s1"}
          /\ analyzer[t].detected["s1"].count = 2
          /\ \E l \in TodayLogs("s1", 2, today) :
                l.task_id = t /\ l.metode = "AI_VIDEO" /\ l.jumlah_muncul = 2
          /\ \E l \in TodayLogs("s2", 2, today) :
                l.metode = "ALPHA_SYSTEM" /\ l.jumlah_muncul = 0

\* C11: a disputed row stays disputed through every step (a video applied, a
\* close, another dispute) except a manual entry for its nim and jadwal on its
\* day, and that manual entry leaves it not disputed with metode MANUAL_DOSEN.
DisputeClearedOnlyByManual ==
    [][\A l \in log_absensi : l.is_disputed =>
          \E m \in log_absensi' :
              /\ m.log_id = l.log_id
              /\ IF l.waktu_absen = today /\ endpoint_manual_absen(l.nim, l.jadwal_id)
                 THEN ~m.is_disputed /\ m.metode = "MANUAL_DOSEN"
                 ELSE m.is_disputed /\ m.keterangan_report = l.keterangan_report]_vars

\* a later video has just added its count to the disputed AI_VIDEO row of s1,
\* which is still disputed with its reason
DisputeClearedOnlyByManualWitness ==
    \E t \in Tasks :
        /\ analyzer[t].pc = "committed"
        /\ "s1" \in DOMAIN analyzer[t].detected
        /\ analyzer[t].processed_count = 1
        /\ \E l \in TodayLogs("s1", analyzer[t].jadwal_id, today) :
              /\ l.metode = "AI_VIDEO"
              /\ l.task_id # t
              /\ l.is_disputed
              /\ l.keterangan_report = "wrong match"

\* C12: an accepted dispute sets is_disputed and stores the reason on the row
\* of the given log_id, keeps its metode and jumlah_muncul, and changes no
\* other row.
DisputeFlagsOneRow ==
    [][\A u \in Nims, id \in 1..next_log_id, a \in Reasons, f \in BOOLEAN :
          (student_submit_report(u, id, a, f) /\ resp'.code = 200) =>
              \E l \in log_absensi, m \in log_absensi' :
                  /\ l.log_id = id
                  /\ m.log_id = id
                  /\ m.is_disputed
                  /\ m.keterangan_report = a
                  /\ m.metode = l.metode
                  /\ m.jumlah_muncul = l.jumlah_muncul
                  /\ log_absensi' \ {m} = log_absensi \ {l}]_vars

\* s1 has just disputed today's AI_VIDEO row, which keeps its count, while
\* yesterday's row of s1 is not disputed
DisputeFlagsOneRowWitness ==
    /\ resp = Response("report", 200)
    /\ \E l \in TodayLogs("s1", 1, today) :
          l.is_disputed /\ l.metode = "AI_VIDEO" /\ l.jumlah_muncul = 2
    /\ \E l \in TodayLogs("s1", 1, Yesterday) : ~l.is_disputed

\* C13: a dispute is accepted exactly when the row of the given log_id exists,
\* belongs to the requesting student and that student is now enrolled in the
\* class of the row's jadwal; otherwise it is answered 403 or 404 and the
\* ledger is unchanged.
DisputeNeedsOwnerEnrolled ==
    [][\A u \in Nims, id \in 1..next_log_id, a \in Reasons, f \in BOOLEAN :
          student_submit_report(u, id, a, f) =>
              LET accepted == \E l \in log_absensi :
                                  /\ l.log_id = id
                                  /\ l.nim = u
                                  /\ \E e \in enrollment :
                                        /\ e.nim = u
                                        /\ l.jadwal_id \in DOMAIN jadwal
                                        /\ e.student_class_id = jadwal[l.jadwal_id]
              IN /\ accepted <=> resp'.code = 200
                 /\ ~accepted => /\ resp'.code \in {403, 404}
                                  /\ log_absensi' = log_absensi]_vars

\* a dispute has just been refused while s3 holds an undisputed row of jadwal
\* 1, which is now bound to a class s3 is not enrolled in
DisputeNeedsOwnerEnrolledWitness ==
    /\ resp = Response("report", 403)
    /\ jadwal[1] = 2
    /\ \E l \in TodayLogs("s3", 1, today) : ~l.is_disputed
    /\ \A l \in log_absensi : l.nim = "s3" \/ l.waktu_absen = Yesterday

TaskStatusLifecycle ==
    [][\A t \in Tasks :
          LET moves == {<<"queued", "processing">>, <<"processing", "completed">>,
                        <<"processing", "failed">>}
          IN /\ (t \notin DOMAIN tasks_db /\ t \in DOMAIN tasks_db') =>
                    tasks_db'[t].status = "queued"
             /\ (t \notin DOMAIN video_tasks /\ t \in DOMAIN video_tasks') =>
                    video_tasks'[t].status = "queued"
             /\ (t \in DOMAIN tasks_db /\ tasks_db'[t].status # tasks_db[t].status) =>
                    <<tasks_db[t].status, tasks_db'[t].status>> \in moves
             /\ (t \in DOMAIN video_tasks /\ video_tasks'[t].status # video_tasks[t].status) =>
                    <<video_tasks[t].status, video_tasks'[t].status>> \in moves
             /\ (t \in DOMAIN video_tasks' /\ video_tasks'[t].status = "processing") =>
                    analyzer'[t].pc \notin {"idle", "queued"}]_vars

\* C16: the progress that status polling returns for a task does not decrease
\* in a step that leaves the task queued, processing or completed.
ProgressNeverDecreases ==
    [][\A t \in Tasks :
          endpoint_get_task_status(t)'.status # "failed" =>
              endpoint_get_task_status(t)'.progress >= endpoint_get_task_status(t).progress]_vars

\* a poll returns processing with half of the frames read, after polls that
\* returned 0
ProgressNeverDecreasesWitness ==
    \E t \in Tasks :
        /\ analyzer[t].pc = "scan"
        /\ analyzer[t].current_frame_idx = TotalFrames
        /\ endpoint_get_task_status(t).status = "processing"
        /\ endpoint_get_task_status(t).progress > 0

\* C17: is_closed is false on a new row of video_tasks and changes only in a
\* close, which sets it on every task of the closed jadwal, leaves it as it
\* is on the tasks of other jadwals and changes no status.
ClosedOnlyByClose ==
    [][/\ \A t \in Tasks :
             /\ (t \notin DOMAIN video_tasks /\ t \in DOMAIN video_tasks') =>
                    ~video_tasks'[t].is_closed
             /\ (t \in DOMAIN video_tasks /\ video_tasks'[t].is_closed # video_tasks[t].is_closed) =>
                    close_class_session(video_tasks[t].jadwal_id)
       /\ \A j \in DOMAIN jadwal : close_class_session(j) =>
             \A t \in DOMAIN video_tasks :
                 /\ video_tasks'[t].is_closed = (video_tasks[t].is_closed \/ video_tasks[t].jadwal_id = j)
                 /\ video_tasks'[t].status = video_tasks[t].status]_vars

\* a close of the jadwal of the first task, which had failed, has just closed
\* it while the analysis of the other jadwal is in its ledger session, open
ClosedOnlyByCloseWitness ==
    /\ resp.op = "close"
    /\ DOMAIN video_tasks = {1, 2}
    /\ video_tasks[1].jadwal_id # video_tasks[2].jadwal_id
    /\ video_tasks[1].is_closed
    /\ ~video_tasks[2].is_closed
    /\ video_tasks[1].status = "failed"
    /\ analyzer[2].pc = "upsert"


\* after the step, the index holds the row v under the id nim
Indexed(nim, v) ==
    \E i \in DOMAIN known_ids' \cap DOMAIN known_matrix' :
        known_ids'[i] = nim /\ known_matrix'[i] = v

\* C18: a query that runs while a reload is in progress reads a whole index.
\* Whenever a query is answered, state.known_ids and state.known_matrix have
\* the same number of entries; the step that ends a reload leaves both as
\* that reload built them; and no step other than the two assignments of a
\* reload changes either of them.
IndexReadWhole ==
    [][/\ (resp' # resp /\ resp'.op = "identify") => Len(known_ids) = Len(known_matrix)
       /\ \A h \in Handlers :
              (handlers[h].pc = "swap_matrix" /\ handlers'[h].pc = "idle") =>
                  /\ known_ids' = handlers[h].temp_ids
                  /\ known_matrix' = handlers[h].temp_vectors
       /\ (known_ids' # known_ids \/ known_matrix' # known_matrix) =>
              \E h \in Handlers : handlers[h].pc \in {"swap", "swap_matrix"}]_vars

\* a query has been answered from the index of startup while the reload of a
\* registration holds a larger index that it has not yet assigned
IndexReadWholeWitness ==
    /\ resp.op = "identify"
    /\ resp.info[1] \in {"s1", "s2"}
    /\ Len(known_ids) = 2
    /\ \E h \in Handlers : /\ handlers[h].op = "register"
                           /\ handlers[h].pc = "swap"
                           /\ Len(handlers[h].temp_ids) = 3

\* C19: the index is reloaded at process start and after every operation that
\* writes an embedding.  When startup returns from a reload that read the
\* store, every embedding of the store is in the index; when a single face
\* registration returns from such a reload, and when a bulk face registration
\* returns, the embedding it wrote is in the index under the student's id,
\* unless the store no longer holds it.
WrittenEmbeddingIndexed ==
    [][/\ \A h \in Handlers :
              (handlers[h].pc = "swap_matrix" /\ handlers'[h].pc = "idle") =>
                  /\ handlers[h].op = "startup" =>
                         \A n \in embedding : Indexed(n, Normalize(embedding_data[n]))
                  /\ (/\ handlers[h].op = "register"
                      /\ handlers[h].nim \in embedding
                      /\ embedding_data[handlers[h].nim] = handlers[h].emb) =>
                         Indexed(handlers[h].nim, handlers[h].emb)
       /\ \A p \in Photos :
              bulk_face_registration(p) =>
                  \A n \in DOMAIN p : Indexed(n, Normalize(p[n]))]_vars

SelfQueryOwnId ==
    [][(resp' # resp /\ resp'.op = "identify") =>
       \A e \in QueryEmbeddings :
          Identify(e) =>
              \A i \in 1..Len(known_ids) :
                  known_matrix[i] = Normalize(e) => resp'.info = <<known_ids[i], 100>>]_vars

\* C21: a query with the embedding the index holds for a student answers with
\* score 1.00 the id of a student the index holds that embedding for; it is
\* the student's own id when no other row of the index holds the same
\* embedding.
SelfQueryMatches ==
    [][(resp' # resp /\ resp'.op = "identify") =>
       \A e \in QueryEmbeddings :
          Identify(e) =>
              LET same == {i \in 1..Len(known_ids) : known_matrix[i] = Normalize(e)}
              IN  same # {} =>
                      /\ resp'.info[2] = 100
                      /\ \E i \in same : resp'.info[1] = known_ids[i]]_vars

\* s2, the second of three students of the index, has been found by a query
\* with the embedding the index holds for s2
SelfQueryMatchesWitness ==
    /\ resp.op = "identify"
    /\ resp.info = <<"s2", 100>>
    /\ Len(known_ids) = 3
    /\ Len(known_matrix) = 3
    /\ known_ids[2] = "s2"
    /\ \A i \in {1, 3} : known_matrix[i] # known_matrix[2]

\* C22: the frame loop terminates for every video.  The loop is left at the
\* end of an iteration exactly when the next offset reaches total_frames, and
\* an iteration that is followed by another one moves current_frame_idx to a
\* strictly greater multiple of frame_interval; the loop is left when a read
\* fails, and that read is not tried again.
FrameLoopTerminates ==
    [][\A t \in Tasks :
          /\ FrameNext(t) =>
                 /\ analyzer'[t].current_frame_idx >= analyzer[t].total_frames
                        <=> analyzer'[t].loop = "released"
                 /\ analyzer'[t].loop = "read" =>
                        /\ analyzer'[t].current_frame_idx > analyzer[t].current_frame_idx
                        /\ \E k \in 1..MaxReads :
                               analyzer'[t].current_frame_idx = k * analyzer[t].frame_interval
          /\ FrameRead(t, FALSE, <<>>) => analyzer'[t].loop = "released"]_vars

\* the classifier has answered `calls` labels for the tally
TallySize(emosi, calls) == \E S \in SUBSET Labels :
    /\ Cardinality(S) = calls
    /\ \A lab \in Labels : emosi[lab] = IF lab \in S THEN 1 ELSE 0

\* C24: within one video every identified detection adds one to the count of
\* its student; the sample of a student is set by the first detection whose
\* crop is not empty and is not replaced afterwards; the affect tally changes
\* only in the step that sets the sample, so the classifier is called at most
\* once for a student; the evidence of the other students is untouched.
FirstCropKept ==
    [][\A t \in Tasks, api \in ApiOutcomes :
          FrameFace(t, api) =>
              LET face == Head(analyzer[t].faces)
                  nim == face.nim_result
                  old == Meta(analyzer[t].detected_students, nim)
                  new == Meta(analyzer'[t].detected_students, nim)
              IN  /\ \A n \in Nims \ {nim} :
                         Meta(analyzer'[t].detected_students, n)
                             = Meta(analyzer[t].detected_students, n)
                  /\ nim = "Unknown" =>
                         analyzer'[t].detected_students = analyzer[t].detected_students
                  /\ nim # "Unknown" =>
                         /\ new.count = old.count + 1
                         /\ old.sample # NoPhoto =>
                                new.sample = old.sample /\ new.emosi = old.emosi
                         /\ (old.sample = NoPhoto /\ ~face.crop) =>
                                new.sample = NoPhoto /\ new.emosi = EmptyTally
                         /\ (old.sample = NoPhoto /\ face.crop) =>
                                /\ new.sample = CropFile(t, nim, analyzer[t].current_frame_idx)
                                /\ TallySize(new.emosi, 0) \/ TallySize(new.emosi, 1)]_vars

\* s1 was seen without a usable crop in the first frame and twice in the
\* second: the sample is the crop of the second frame, classified once
FirstCropKeptWitness ==
    \E t \in Tasks :
        /\ "loop" \in DOMAIN analyzer[t]
        /\ "s1" \in DOMAIN analyzer[t].detected_students
        /\ analyzer[t].detected_students["s1"].count = 3
        /\ analyzer[t].detected_students["s1"].sample = CropFile(t, "s1", 1)
        /\ TallySize(analyzer[t].detected_students["s1"].emosi, 1)

\* C25: a failure of the affect classifier for the crop of a student does not
\* abort the analysis and removes no evidence: the detection is counted, the
\* crop stays the sample of the student, the tally stays empty, the evidence
\* of the other students and the task status are untouched, and the analysis
\* goes on with the faces left in the frame.
ClassifierFailureTolerated ==
    [][\A t \in Tasks :
          (FrameFace(t, "fail") /\ Calls(analyzer[t])) =>
              LET face == Head(analyzer[t].faces)
                  nim == face.nim_result
                  old == Meta(analyzer[t].detected_students, nim)
              IN  /\ nim \in DOMAIN analyzer'[t].detected_students
                  /\ analyzer'[t].detected_students[nim] =
                         [count |-> old.count + 1, emosi |-> EmptyTally,
                          sample |-> CropFile(t, nim, analyzer[t].current_frame_idx)]
                  /\ \A n \in DOMAIN analyzer[t].detected_students \ {nim} :
                         /\ n \in DOMAIN analyzer'[t].detected_students
                         /\ analyzer'[t].detected_students[n] = analyzer[t].detected_students[n]
                  /\ analyzer'[t].pc = "scan"
                  /\ analyzer'[t].loop = "faces"
                  /\ analyzer'[t].faces = Tail(analyzer[t].faces)
                  /\ tasks_db' = tasks_db]_vars

\* an analysis whose classifier call for s1 failed has committed the row of
\* s1 with the crop as evidence and the affect "Neutral"
ClassifierFailureToleratedWitness ==
    \E t \in Tasks, l \in log_absensi :
        /\ analyzer[t].pc = "committed"
        /\ l.task_id = t
        /\ l.nim = "s1"
        /\ l.bukti_foto = CropFile(t, "s1", 0)
        /\ l.emosi_dominan = "Neutral"
        /\ l.jumlah_muncul = 2

\* C23: every way the background analysis ends (its return after the commit,
\* the except block after a failure to open the video or an exception in the
\* frame loop or in the ledger session) passes through the removal of the
\* temporary video file: the step that ends the pipeline of a task finds the
\* file of the upload and leaves none.
CleanupOnEveryExit ==
    [][\A t \in Tasks :
          (analyzer[t].pc # "done" /\ analyzer'[t].pc = "done")
              => (t \in temp_videos /\ t \notin temp_videos')]_vars

CleanupOnEveryExitWitness ==
    \E t1, t2 \in Tasks :
       /\ analyzer[t1].pc = "done" /\ video_tasks[t1].status = "failed"
       /\ analyzer[t2].pc = "done" /\ video_tasks[t2].status = "completed"
       /\ temp_videos = {}

\* the rows of the sessions other than jadwal_id are what they were
OtherSessionsKept(jadwal_id) ==
    {l \in log_absensi' : l.jadwal_id # jadwal_id} = {l \in log_absensi : l.jadwal_id # jadwal_id}

\* C26: an analysis that applies its evidence, a manual entry and a close for
\* jadwal X leave every row of another jadwal as it was, those of the same
\* student on the same day included, and every row they add is a row of X.
StrictBinding ==
    [][/\ \A t \in Tasks : Applies(t) => OtherSessionsKept(analyzer[t].jadwal_id)
       /\ \A n \in Nims, j \in JadwalIds :
             endpoint_manual_absen(n, j) => OtherSessionsKept(j)
       /\ \A j \in JadwalIds : close_class_session(j) => OtherSessionsKept(j)]_vars

\* s1 is present in jadwal 1 by video and by manual entry in turn, and absent
\* in jadwal 2 on the same day
StrictBindingWitness ==
    /\ \E l \in log_absensi : /\ l.nim = "s1" /\ l.jadwal_id = 1 /\ l.waktu_absen = today
                              /\ l.metode = "MANUAL_DOSEN" /\ l.task_id # NoTask
    /\ \E l \in log_absensi : /\ l.nim = "s1" /\ l.jadwal_id = 2 /\ l.waktu_absen = today
                              /\ l.metode = "ALPHA_SYSTEM"

\* C27: the row an analysis inserts for an enrolled student it detected who
\* had no row for the jadwal that day carries metode AI_VIDEO, the student's
\* count of the video as jumlah_muncul, the label with the highest tally as
\* emosi_dominan ("Neutral" when no label was tallied), the student's crop as
\* bukti_foto, and is_disputed false.
AutoInsertFields ==
    [][\A t \in Tasks : Applies(t) =>
          \A n \in DOMAIN analyzer[t].detected :
             LET j == analyzer[t].jadwal_id
                 meta == analyzer[t].detected[n]
             IN (Enrolled(n, j) /\ LogsOf(log_absensi, n, j, today) = {}) =>
                   \E l \in log_absensi' \ log_absensi :
                      /\ LogsOf(log_absensi', n, j, today) = {l}
                      /\ l.task_id = t
                      /\ l.metode = "AI_VIDEO"
                      /\ l.jumlah_muncul = meta.count
                      /\ IF \A lab \in Labels : meta.emosi[lab] = 0
                         THEN l.emosi_dominan = "Neutral"
                         ELSE /\ l.emosi_dominan \in Labels
                              /\ \A lab \in Labels :
                                    meta.emosi[lab] <= meta.emosi[l.emosi_dominan]
                      /\ l.bukti_foto = meta.sample
                      /\ ~l.is_disputed]_vars

\* a committed analysis inserted the row of s1, seen once with a crop the
\* classifier labelled
AutoInsertFieldsWitness ==
    \E t \in Tasks, l \in log_absensi :
        /\ analyzer[t].pc = "committed"
        /\ l.task_id = t
        /\ l.nim = "s1"
        /\ l.metode = "AI_VIDEO"
        /\ l.jumlah_muncul = 1
        /\ l.emosi_dominan = "happy"
        /\ l.bukti_foto = CropFile(t, "s1", 0)
        /\ ~l.is_disputed

\* C28: a listing of the courses returns the rows table kelas holds when it is
\* served, whatever create, update or delete came before it.
ListReturnsCurrentKelas ==
    [][admin_list_kelas => resp'.info = kelas]_vars

\* C29: the summary of a bulk registration counts in users_created the Users
\* rows the run inserted, and a result has user_created only for a nim whose
\* Users row the run inserted.
BulkSummaryCountsUsers ==
    [][\A p \in Photos : bulk_face_registration(p) =>
          /\ resp'.info.users_created = Cardinality(users' \ users)
          /\ \A n \in DOMAIN p :
                resp'.info.results[n].user_created => n \in users' \ users]_vars

\* C30: the delete of an enrollment that exists removes its row, and the
\* student has no enrollment left in that student class for the video
\* analysis, the manual entry and the close to find; the delete of an id
\* without a row is answered 404 and changes nothing.
DeleteEnrollmentRemoves ==
    [][\A id \in EnrollmentIds : delete_enrollment(id) =>
          IF \E e \in enrollment : e.enrollment_id = id
          THEN /\ enrollment' = {e \in enrollment : e.enrollment_id # id}
               /\ \A e \in enrollment : e.enrollment_id = id =>
                     e.nim \notin {x.nim : x \in {y \in enrollment' :
                                       y.student_class_id = e.student_class_id}}
          ELSE /\ resp'.code = 404
               /\ enrollment' = enrollment]_vars

\* C31: the attendance view of a jadwal with a student class holds one row
\* for each student enrolled in the class who has an embedding and no other
\* row; the status of a row is LAPOR when the student's row of the jadwal
\* today is disputed, ALPHA when there is none or it is an undisputed
\* ALPHA_SYSTEM row, and HADIR otherwise.
AttendanceViewRows ==
    [][\A j \in JadwalIds :
          (get_session_attendance_sync(j) /\ resp'.code = 200) =>
             LET view == resp'.info
             IN /\ \A n \in Nims :
                      (Enrolled(n, j) /\ n \in embedding)
                         => Cardinality({i \in DOMAIN view : view[i].nim = n}) = 1
                /\ \A i \in DOMAIN view :
                      LET n == view[i].nim
                          recs == LogsOf(log_absensi, n, j, today)
                      IN /\ Enrolled(n, j) /\ n \in embedding
                         /\ view[i].status =
                               IF \E l \in recs : l.is_disputed THEN "LAPOR"
                               ELSE IF \A l \in recs : l.metode = "ALPHA_SYSTEM" THEN "ALPHA"
                               ELSE "HADIR"]_vars

\* the view of jadwal 2 after its close and a dispute: s1 reports, s2 is absent
AttendanceViewRowsWitness ==
    /\ resp.op = "attendance"
    /\ resp.code = 200
    /\ Len(resp.info) = 2
    /\ resp.info[1].nim = "s1" /\ resp.info[1].status = "LAPOR"
    /\ resp.info[2].nim = "s2" /\ resp.info[2].status = "ALPHA"
    /\ resp.info[2].metode = "ALPHA_SYSTEM"

\* C32: when the analyses of the videos of one jadwal, run concurrently, have
\* all committed and each saw once a student whose AI_VIDEO row of the day
\* held a count of 1, the row holds 1 plus one for each video.
NoLostUpdate ==
    (\A t \in Tasks : t \in DOMAIN video_tasks /\ video_tasks[t].status = "completed")
        => \A l \in LogsOf(log_absensi, "s1", 1, today) : l.jumlah_muncul = 1 + NumTasks

OnlyIndexedIdsCounted ==
    \A t \in Tasks :
        /\ "loop" \in DOMAIN analyzer[t] => DOMAIN analyzer[t].detected_students \subseteq embedding
        /\ DOMAIN analyzer[t].detected \subseteq embedding

\* C35: the metode of a row of the ledger changes only in a manual entry and
\* only to MANUAL_DOSEN: no video analysis, close or dispute turns a row into
\* an AI_VIDEO or ALPHA_SYSTEM row.
MethodChangesOnlyToManual ==
    [][\A old \in log_absensi, new \in log_absensi' :
          (old.log_id = new.log_id /\ old.metode # new.metode) =>
              /\ new.metode = "MANUAL_DOSEN"
              /\ \E n \in Nims, j \in JadwalIds : endpoint_manual_absen(n, j)]_vars

\* a row the video analysis wrote with a count of 2 and a crop is now manual
MethodChangesOnlyToManualWitness ==
    \E l \in log_absensi :
        /\ l.metode = "MANUAL_DOSEN"
        /\ l.task_id # NoTask
        /\ l.jumlah_muncul = 2
        /\ l.bukti_foto # NoPhoto

\* C36: a manual entry leaves in every row that existed its jumlah_muncul,
\* emosi_dominan and bukti_foto, the photo of a dispute included, as well as
\* the nim, jadwal and task of the row.
ManualEntryKeepsEvidence ==
    [][\A n \in Nims, j \in JadwalIds :
          endpoint_manual_absen(n, j) =>
             \A old \in log_absensi :
                \E new \in log_absensi' :
                   /\ new.log_id = old.log_id
                   /\ new.jumlah_muncul = old.jumlah_muncul
                   /\ new.emosi_dominan = old.emosi_dominan
                   /\ new.bukti_foto = old.bukti_foto
                   /\ new.nim = old.nim
                   /\ new.jadwal_id = old.jadwal_id
                   /\ new.task_id = old.task_id]_vars

\* the row of a video, disputed with a photo, after the manual entry that
\* settled the dispute
ManualEntryKeepsEvidenceWitness ==
    /\ resp.op = "manual"
    /\ \E l \in log_absensi :
          /\ l.metode = "MANUAL_DOSEN"
          /\ l.task_id # NoTask
          /\ ~l.is_disputed
          /\ l.bukti_foto = ReportPath(l.nim, l.log_id)

\* ------------------------------------------------------------ the empty store
\* The identity index over a store in which no student has a face yet: the
\* students and their enrollments are there, mahasiswa.embedding_data is null
\* in every row.  A face of s4 is registered and s4 is deleted again, so the
\* store passes from empty to one embedding and back.
InitEmpty ==
    /\ mahasiswa = {"s1", "s2", "s3"}
    /\ embedding = {}
    /\ enrollment = {[enrollment_id |-> 1, nim |-> "s1", student_class_id |-> 1],
                     [enrollment_id |-> 2, nim |-> "s1", student_class_id |-> 2],
                     [enrollment_id |-> 3, nim |-> "s2", student_class_id |-> 2],
                     [enrollment_id |-> 4, nim |-> "s3", student_class_id |-> 1]}
    /\ jadwal = (1 :> 1) @@ (2 :> 2)
    /\ log_absensi = {LogRow(1, NoTask, "s1", 1, Yesterday, "MANUAL_DOSEN", 1,
                             "Manual Input", NoPhoto)}
    /\ next_log_id = 2
    /\ video_tasks = <<>>
    /\ tasks_db = <<>>
    /\ analyzer = [t \in Tasks |-> IdleAnalyzer]
    /\ inflight = {}
    /\ today = 1
    /\ resp = Response("none", 0)
    /\ embedding_data = [n \in {} |-> <<>>]
    /\ known_ids = <<>>
    /\ known_matrix = NoMatrix
    /\ handlers = [h \in Handlers |-> IF h = 1 THEN StartupHandler ELSE IdleHandler]
    /\ kelas = (1 :> "Basis Data")
    /\ next_kelas_id = 2
    /\ cache_kelas = NoCache
    /\ cache_kelas_time = NoTime
    /\ now = 0
    /\ users = {"s1", "s2", "s3"}
    /\ temp_videos = {}

SpecEmpty == InitEmpty /\ [][NextIndex]_vars

\* C37: a reload that fails while it reads the store leaves known_ids and
\* known_matrix as they were; a reload that read no embedding leaves the index
\* empty, and a query on the empty index answers "Unknown" with score 0.
ReloadFailureAndEmptyStore ==
    [][/\ \A h \in Handlers :
             (handlers[h].pc = "reload" /\ handlers'[h].pc = "idle") =>
                (known_ids' = known_ids /\ known_matrix' = known_matrix)
       /\ \A h \in Handlers :
             (/\ handlers[h].pc = "swap_matrix"
              /\ handlers[h].temp_vectors = <<>>
              /\ handlers'[h].pc = "idle") =>
                (known_ids' = <<>> /\ known_matrix' = NoMatrix)
       /\ \A e \in QueryEmbeddings :
             (Identify(e) /\ known_ids = <<>> /\ known_matrix = NoMatrix) =>
                resp'.info = <<"Unknown", 0>>]_vars

\* a reload that read the empty store is replacing an index that held s4:
\* the id list is already the empty one
ReloadFailureAndEmptyStoreWitness ==
    \E h \in Handlers :
       /\ handlers[h].pc = "swap_matrix"
       /\ handlers[h].temp_vectors = <<>>
       /\ handlers[h].op = "delete_mhs"
       /\ known_ids = <<>>
       /\ known_matrix # NoMatrix

\* C38: in state.tasks_db the progress of a task is 100 exactly when its
\* status is completed, and at most 99 while its status is processing.
ProgressMatchesStatus ==
    \A t \in DOMAIN tasks_db :
       /\ tasks_db[t].progress = 100 <=> tasks_db[t].status = "completed"
       /\ tasks_db[t].status = "processing" => tasks_db[t].progress <= 99

\* one task has completed, the frame loop of another is half way
ProgressMatchesStatusWitness ==
    \E t, u \in DOMAIN tasks_db :
       /\ tasks_db[t].status = "processing"
       /\ tasks_db[t].progress = (FrameInterval * 100) \div TotalFrames
       /\ tasks_db[u].status = "completed"
       /\ tasks_db[u].progress = 100

\* C39: the "hadir" count a close returns is the number of students whose row
\* of the jadwal today has a metode other than ALPHA_SYSTEM, so that a second
\* close of the session returns the "hadir" count of the first.
HadirCountsAttended ==
    [][\A j \in DOMAIN jadwal :
          close_class_session(j) =>
             resp'.info[2] =
                Cardinality({l.nim : l \in {x \in log_absensi :
                                               /\ x.jadwal_id = j
                                               /\ x.waktu_absen = today
                                               /\ x.metode # "ALPHA_SYSTEM"}})]_vars
====
